---- MODULE Spec2Model ----
(***************************************************************************)
(* Model of devlog's native messaging host: the length-prefixed frame      *)
(* reader (internal/natmsg), the level-filtered log writer                 *)
(* (internal/logger) and the read / log / acknowledge loop of              *)
(* cmd/devlog-host; of the message codec of internal/natmsg used as both   *)
(* ends; and of the session-scoped manifest router of cmd/devlog.          *)
(*                                                                         *)
(* There are three specifications over one list of variables.  Spec and    *)
(* LiveSpec run the host process, CodecSpec the codec, RouterSpec the      *)
(* router; each leaves the variables of the others as they start.          *)
(*                                                                         *)
(* The input stream of the host is a byte stream.  It is kept run-length   *)
(* encoded (a sequence of runs [b |-> byte, n |-> count]) so that frames   *)
(* of 10 MiB fit in a state.  The bytes on the stream come from            *)
(* ByteAlphabet; over that alphabet the JSON grammar has exactly one       *)
(* family of valid documents, ws* '{' ws* '}' ws*, which Unmarshal         *)
(* recognises.  The codec and the router work on JSON as text.             *)
(***************************************************************************)
EXTENDS Integers, Sequences, FiniteSets, TLC

VARIABLES
    \* the host process and its pipe
    bigEndian, args, stdin, stdinClosed, pc, levels, messageLen, msg, err,
    logFile, stdout, exitCode, sent, outcomes, acks, logged, consumed,
    readStart, faults,
    \* the message codec used as both ends
    tz, cstep, onWire, given,
    \* the manifest router
    hostBinary, manifests, wrappers, sessions, registered, installed, ioFaults,
    \* the wrapper files of the sessions that are up
    running,
    \* the level-filtered log writer used on its own
    logger, disk, atOpen, lastLog, mu, callers,
    \* the persisted session state
    stateFile, stateLog,
    \* the log path that the host process resolved from its arguments
    logPath

codecVars == <<tz, cstep, onWire, given>>

routerVars ==
    <<hostBinary, manifests, wrappers, sessions, registered, installed, ioFaults>>

namingVars == <<running>>

loggerVars == <<logger, disk, atOpen, lastLog, mu, callers>>

stateVars == <<stateFile, stateLog>>

startVars == <<logPath>>

vars == <<bigEndian, args, stdin, stdinClosed, pc, levels, messageLen, msg,
          err, logFile, stdout, exitCode, sent, outcomes, acks, logged,
          consumed, readStart, faults, codecVars, routerVars, namingVars,
          loggerVars, stateVars, startVars>>

\* Bound: number of frames the peer sends before the stream closes.
MaxFrames == 2

\* Bound: number of failed writes (to the log file or to stdout) in one run.
MaxFaults == 1

\* Bound: number of frames the pipe holds; the peer's write blocks when the
\* pipe is full.
PipeFrames == 1

\* Cap on the ReadMessage calls of one run.  A frame costs the host at most
\* two calls and the end of the stream one more, so the cap is never reached.
MaxReads == 2 * MaxFrames + 2

----------------------------------------------------------------------------
\* Byte streams, run-length encoded.

Run(b, n) == [b |-> b, n |-> n]

RECURSIVE SLen(_)
SLen(s) == IF s = <<>> THEN 0 ELSE Head(s).n + SLen(Tail(s))

\* The first k bytes of s (all of s when it is shorter).
RECURSIVE STake(_, _)
STake(s, k) ==
    IF k = 0 \/ s = <<>> THEN <<>>
    ELSE IF Head(s).n <= k
         THEN <<Head(s)>> \o STake(Tail(s), k - Head(s).n)
         ELSE <<Run(Head(s).b, k)>>

\* s without its first k bytes.
RECURSIVE SDrop(_, _)
SDrop(s, k) ==
    IF k = 0 \/ s = <<>> THEN s
    ELSE IF Head(s).n <= k
         THEN SDrop(Tail(s), k - Head(s).n)
         ELSE <<Run(Head(s).b, Head(s).n - k)>> \o Tail(s)

\* The i-th byte of s, 1 <= i <= SLen(s).
RECURSIVE ByteAt(_, _)
ByteAt(s, i) == IF i <= Head(s).n THEN Head(s).b ELSE ByteAt(Tail(s), i - Head(s).n)

Lit(bytes) == [i \in 1..Len(bytes) |-> Run(bytes[i], 1)]

----------------------------------------------------------------------------
\* encoding/binary, native byte order.  A uint32 is kept as two 16-bit
\* halves so that every value of the four bytes is representable.

U32(n) == [hi |-> n \div 65536, lo |-> n % 65536]

U32Value(u) == u.hi * 65536 + u.lo

\* No length prefix was decoded.
NoLength == [hi |-> -1, lo |-> -1]

U32Greater(u, n) == u.hi > n \div 65536 \/ (u.hi = n \div 65536 /\ u.lo > n % 65536)

Uint32(b, big) ==
    IF big THEN [hi |-> b[1] * 256 + b[2], lo |-> b[3] * 256 + b[4]]
    ELSE [hi |-> b[4] * 256 + b[3], lo |-> b[2] * 256 + b[1]]

PutUint32(n, big) ==
    LET b0 == n % 256
        b1 == (n \div 256) % 256
        b2 == (n \div 65536) % 256
        b3 == (n \div 16777216) % 256
    IN IF big THEN <<b3, b2, b1, b0>> ELSE <<b0, b1, b2, b3>>

----------------------------------------------------------------------------
\* Text.  A Go string or []byte of text is a TLA+ string; Len, SubSeq and \o
\* work on it character by character.

CharAt(s, i) == SubSeq(s, i, i)

\* s[i:], with i counted from 1.
From(s, i) == SubSeq(s, i, Len(s))

HasPrefix(s, p) == Len(s) >= Len(p) /\ SubSeq(s, 1, Len(p)) = p

DigitChars == "0123456789"

IsDigit(c) == \E d \in 1..10 : CharAt(DigitChars, d) = c

DigitValue(c) == (CHOOSE d \in 1..10 : CharAt(DigitChars, d) = c) - 1

\* s is one or more decimal digits.
AllDigits(s) == Len(s) > 0 /\ \A i \in 1..Len(s) : IsDigit(CharAt(s, i))

\* The value of a string of decimal digits.
RECURSIVE DigitsValue(_)
DigitsValue(s) ==
    IF s = "" THEN 0
    ELSE 10 * DigitsValue(SubSeq(s, 1, Len(s) - 1)) + DigitValue(CharAt(s, Len(s)))

\* strconv.Itoa of n >= 0.
RECURSIVE Itoa(_)
Itoa(n) ==
    IF n < 10 THEN CharAt(DigitChars, n + 1)
    ELSE Itoa(n \div 10) \o CharAt(DigitChars, (n % 10) + 1)

\* n >= 0 in decimal, zero-padded to at least w digits.
RECURSIVE Pad(_, _)
Pad(n, w) == IF Len(Itoa(n)) >= w THEN Itoa(n) ELSE "0" \o Pad(n, w - 1)

\* The length of the longest prefix of s made of decimal digits.
RECURSIVE DigitRun(_)
DigitRun(s) ==
    IF s # "" /\ IsDigit(CharAt(s, 1)) THEN 1 + DigitRun(From(s, 2)) ELSE 0

----------------------------------------------------------------------------
\* Package time.  A time.Time is its instant, kept as the day since
\* 1970-01-01 (UTC), the second of that day and the nanosecond of that
\* second, and the offset in minutes east of UTC of its location.

Time(day, sec, nsec, offset) == [day |-> day, sec |-> sec, nsec |-> nsec, offset |-> offset]

\* t.Equal(u): the same instant, whatever the locations.
TimeEqual(t, u) == t.day = u.day /\ t.sec = u.sec /\ t.nsec = u.nsec

\* The day number of the civil date y-m-d.
DaysFromCivil(y, m, d) ==
    LET yy == IF m <= 2 THEN y - 1 ELSE y
        era == yy \div 400
        yoe == yy - era * 400
        mp == IF m > 2 THEN m - 3 ELSE m + 9
        doy == (153 * mp + 2) \div 5 + d - 1
        doe == yoe * 365 + yoe \div 4 - yoe \div 100 + doy
    IN era * 146097 + doe - 719468

\* The civil date of a day number.
CivilFromDays(day) ==
    LET z == day + 719468
        era == z \div 146097
        doe == z - era * 146097
        yoe == (doe - doe \div 1460 + doe \div 36524 - doe \div 146096) \div 365
        doy == doe - (365 * yoe + yoe \div 4 - yoe \div 100)
        mp == (5 * doy + 2) \div 153
        m == IF mp < 10 THEN mp + 3 ELSE mp - 9
    IN [year |-> yoe + era * 400 + (IF m <= 2 THEN 1 ELSE 0),
        month |-> m,
        day |-> doy - (153 * mp + 2) \div 5 + 1]

IsLeap(y) == y % 4 = 0 /\ (y % 100 # 0 \/ y % 400 = 0)

DaysIn(m, y) ==
    IF m = 2 THEN (IF IsLeap(y) THEN 29 ELSE 28)
    ELSE IF m \in {4, 6, 9, 11} THEN 30 ELSE 31

\* The date and clock a time shows in its own location.
ClockOn(civil, s) ==
    [year |-> civil.year, month |-> civil.month, day |-> civil.day,
     hour |-> s \div 3600, minute |-> (s \div 60) % 60, second |-> s % 60]

ClockAt(day, local) == ClockOn(CivilFromDays(day + local \div 86400), local % 86400)

Clock(t) == ClockAt(t.day, t.sec + t.offset * 60)

\* The time of a date and clock read in a location offset minutes east of UTC.
Date(year, month, day, hour, minute, second, nsec, offset) ==
    LET utc == hour * 3600 + minute * 60 + second - offset * 60
    IN Time(DaysFromCivil(year, month, day) + utc \div 86400, utc % 86400, nsec, offset)

\* The zero time.Time, January 1 of year 1, 00:00:00 UTC.
ZeroTime == Date(1, 1, 1, 0, 0, 0, 0, 0)

\* s without its trailing zeros.
RECURSIVE TrimZeros(_)
TrimZeros(s) ==
    IF s # "" /\ CharAt(s, Len(s)) = "0" THEN TrimZeros(SubSeq(s, 1, Len(s) - 1)) ELSE s

\* The layout element .999999999: the fraction of the second without its
\* trailing zeros, nothing when it is zero.
FormatFraction9(nsec) == IF nsec = 0 THEN "" ELSE "." \o TrimZeros(Pad(nsec, 9))

\* The layout element .000: three digits, the rest cut off.
FormatFraction000(nsec) == "." \o Pad(nsec \div 1000000, 3)

\* The layout element Z07:00.
FormatZone_AlwaysZ(offset) == "Z"

FormatZone(offset) ==
    IF offset = 0 THEN "Z"
    ELSE IF offset > 0 THEN "+" \o Pad(offset \div 60, 2) \o ":" \o Pad(offset % 60, 2)
    ELSE "-" \o Pad((-offset) \div 60, 2) \o ":" \o Pad((-offset) % 60, 2)

\* t.Format(time.RFC3339Nano), layout 2006-01-02T15:04:05.999999999Z07:00.
\* The year is written with at least four digits.
FormatDateTime(c) ==
    Pad(c.year, 4) \o "-" \o Pad(c.month, 2) \o "-" \o Pad(c.day, 2) \o "T"
    \o Pad(c.hour, 2) \o ":" \o Pad(c.minute, 2) \o ":" \o Pad(c.second, 2)

FormatRFC3339Nano(t) ==
    FormatDateTime(Clock(t)) \o FormatFraction9(t.nsec) \o FormatZone(t.offset)

\* A parse that failed.
BadTime == [ok |-> FALSE, time |-> ZeroTime]

\* The layout element Z07:00 read from z, the whole rest of the value:
\* Z, or a sign, two digits, a colon and two digits.
ParseZone(z) ==
    IF z = "Z" THEN [ok |-> TRUE, offset |-> 0]
    ELSE IF /\ Len(z) = 6
            /\ CharAt(z, 1) \in {"+", "-"}
            /\ AllDigits(SubSeq(z, 2, 3))
            /\ CharAt(z, 4) = ":"
            /\ AllDigits(SubSeq(z, 5, 6))
            /\ DigitsValue(SubSeq(z, 2, 3)) <= 24
            /\ DigitsValue(SubSeq(z, 5, 6)) < 60
    THEN [ok |-> TRUE,
          offset |-> (IF CharAt(z, 1) = "-" THEN -1 ELSE 1)
                     * (DigitsValue(SubSeq(z, 2, 3)) * 60 + DigitsValue(SubSeq(z, 5, 6)))]
    ELSE [ok |-> FALSE, offset |-> 0]

\* The nanoseconds of a fraction given by its digits: the first nine count.
FractionNanos(digits) ==
    IF Len(digits) >= 9 THEN DigitsValue(SubSeq(digits, 1, 9))
    ELSE DigitsValue(digits \o SubSeq("000000000", 1, 9 - Len(digits)))

RFC3339Nano == "2006-01-02T15:04:05.999999999Z07:00"
RFC3339 == "2006-01-02T15:04:05Z07:00"

\* time.Parse(layout, s) for the layouts RFC3339Nano and RFC3339: a
\* four-digit year, two-digit month, day, hour, minute and second with their
\* separators, then the zone.  After the seconds Parse reads a fraction, a
\* period and digits, whether or not the layout has one.
Parse(layout, s) ==
    IF ~ /\ Len(s) >= 20
         /\ AllDigits(SubSeq(s, 1, 4)) /\ CharAt(s, 5) = "-"
         /\ AllDigits(SubSeq(s, 6, 7)) /\ CharAt(s, 8) = "-"
         /\ AllDigits(SubSeq(s, 9, 10)) /\ CharAt(s, 11) = "T"
         /\ AllDigits(SubSeq(s, 12, 13)) /\ CharAt(s, 14) = ":"
         /\ AllDigits(SubSeq(s, 15, 16)) /\ CharAt(s, 17) = ":"
         /\ AllDigits(SubSeq(s, 18, 19))
    THEN BadTime
    ELSE
      LET year == DigitsValue(SubSeq(s, 1, 4))
          month == DigitsValue(SubSeq(s, 6, 7))
          day == DigitsValue(SubSeq(s, 9, 10))
          hour == DigitsValue(SubSeq(s, 12, 13))
          minute == DigitsValue(SubSeq(s, 15, 16))
          second == DigitsValue(SubSeq(s, 18, 19))
          rest == From(s, 20)
          hasFrac == Len(rest) >= 2 /\ CharAt(rest, 1) = "." /\ IsDigit(CharAt(rest, 2))
          digits == IF hasFrac THEN SubSeq(rest, 2, 1 + DigitRun(From(rest, 2))) ELSE ""
          zone == ParseZone(IF hasFrac THEN From(rest, 2 + Len(digits)) ELSE rest)
      IN IF /\ month \in 1..12
            /\ day \in 1..DaysIn(month, year)
            /\ hour < 24 /\ minute < 60 /\ second < 60
            /\ zone.ok
         THEN [ok |-> TRUE,
               time |-> Date(year, month, day, hour, minute, second,
                             FractionNanos(digits), zone.offset)]
         ELSE BadTime
----------------------------------------------------------------------------
\* encoding/json on a frame payload.

JsonWhitespace == {9, 10, 13, 32}

RECURSIVE StripLeft(_)
StripLeft(s) ==
    IF s # <<>> /\ Head(s).b \in JsonWhitespace THEN StripLeft(Tail(s)) ELSE s

RECURSIVE StripRight(_)
StripRight(s) ==
    IF s # <<>> /\ s[Len(s)].b \in JsonWhitespace
    THEN StripRight(SubSeq(s, 1, Len(s) - 1)) ELSE s

\* The payload is the JSON text ws* '{' ws* '}' ws*.
IsEmptyObject(payload) ==
    LET core == StripRight(StripLeft(payload))
    IN /\ Len(core) >= 2
       /\ core[1] = Run(123, 1)
       /\ core[Len(core)] = Run(125, 1)
       /\ \A i \in 2..(Len(core) - 1) : core[i].b \in JsonWhitespace

\* Pointers (*Message, *int): the empty sequence is nil, <<v>> points at v.
Nil == <<>>

\* Message.UnmarshalJSON of a JSON object with no members: the Timestamp
\* stays the zero time.Time when no "timestamp" key is decoded.
ZeroMessage ==
    [type |-> "", level |-> "", message |-> "", url |-> "",
     timestamp |-> ZeroTime, source |-> "", line |-> Nil, column |-> Nil]

NoErr == "nil"
EOF == "EOF"
ErrReadLength == "failed to read message length: unexpected EOF"
ErrZeroLength == "invalid message length: 0"
ErrTooLarge == "message too large"
ErrReadBodyEOF == "failed to read message body: EOF"
ErrReadBodyShort == "failed to read message body: unexpected EOF"
ErrParseJSON == "failed to parse message JSON"
ErrWriteLog == "failed to write log"

\* json.Unmarshal(messageBytes, &msg) in ReadMessage.
Unmarshal(payload) ==
    IF IsEmptyObject(payload) THEN [msg |-> <<ZeroMessage>>, err |-> NoErr]
    ELSE [msg |-> Nil, err |-> ErrParseJSON]

----------------------------------------------------------------------------
\* encoding/json on text.

JsonSpace == {" ", "\t", "\n", "\r"}

RECURSIVE SkipSpace(_)
SkipSpace(s) == IF s # "" /\ CharAt(s, 1) \in JsonSpace THEN SkipSpace(From(s, 2)) ELSE s

\* The index of the quote that closes the string literal opened at s[1],
\* looked for from index i on; 0 when there is none.
RECURSIVE StringEnd(_, _)
StringEnd(s, i) ==
    IF i > Len(s) THEN 0
    ELSE IF CharAt(s, i) = "\\" THEN StringEnd(s, i + 2)
    ELSE IF CharAt(s, i) = "\"" THEN i
    ELSE StringEnd(s, i + 1)

\* s is a JSON number without exponent: -? digits (. digits)?
IsJsonNumber(s) ==
    LET body == IF HasPrefix(s, "-") THEN From(s, 2) ELSE s
        n == DigitRun(body)
        rest == From(body, n + 1)
    IN /\ n >= 1
       /\ n = 1 \/ CharAt(body, 1) # "0"
       /\ rest = "" \/ (CharAt(rest, 1) = "." /\ AllDigits(From(rest, 2)))

\* The length of the longest prefix of s made of the characters of numbers.
RECURSIVE NumberRun(_)
NumberRun(s) ==
    IF s # "" /\ (IsDigit(CharAt(s, 1)) \/ CharAt(s, 1) \in {"-", "+", ".", "e", "E"})
    THEN 1 + NumberRun(From(s, 2)) ELSE 0

NoScan == [ok |-> FALSE, rest |-> "", members |-> <<>>]

Scanned(rest) == [ok |-> TRUE, rest |-> rest, members |-> <<>>]

\* The scanner: ScanValue reads one value from the start of s and gives the
\* text after it; ScanElements reads the elements of an array up to its
\* closing bracket; ScanMembers reads the members of an object up to its
\* closing brace and gives them as [key, raw], raw being the text of the value.
RECURSIVE ScanValue(_)
RECURSIVE ScanElements(_)
RECURSIVE ScanMembers(_)

ScanValue(s) ==
    IF s = "" THEN NoScan
    ELSE IF CharAt(s, 1) = "\""
    THEN IF StringEnd(s, 2) = 0 THEN NoScan ELSE Scanned(From(s, StringEnd(s, 2) + 1))
    ELSE IF CharAt(s, 1) = "{"
    THEN IF HasPrefix(SkipSpace(From(s, 2)), "}")
         THEN Scanned(From(SkipSpace(From(s, 2)), 2))
         ELSE ScanMembers(From(s, 2))
    ELSE IF CharAt(s, 1) = "["
    THEN IF HasPrefix(SkipSpace(From(s, 2)), "]")
         THEN Scanned(From(SkipSpace(From(s, 2)), 2))
         ELSE ScanElements(From(s, 2))
    ELSE IF HasPrefix(s, "true") \/ HasPrefix(s, "null") THEN Scanned(From(s, 5))
    ELSE IF HasPrefix(s, "false") THEN Scanned(From(s, 6))
    ELSE IF NumberRun(s) > 0 /\ IsJsonNumber(SubSeq(s, 1, NumberRun(s)))
    THEN Scanned(From(s, NumberRun(s) + 1))
    ELSE NoScan

ScanElements(s) ==
    LET v == ScanValue(SkipSpace(s))
        r == SkipSpace(v.rest)
    IN IF ~v.ok THEN NoScan
       ELSE IF HasPrefix(r, ",") THEN ScanElements(From(r, 2))
       ELSE IF HasPrefix(r, "]") THEN Scanned(From(r, 2))
       ELSE NoScan

ScanMembers(s) ==
    LET k == SkipSpace(s)
        e == IF HasPrefix(k, "\"") THEN StringEnd(k, 2) ELSE 0
        c == SkipSpace(From(k, e + 1))
        t == SkipSpace(From(c, 2))
        v == ScanValue(t)
        r == SkipSpace(v.rest)
        member == [key |-> SubSeq(k, 2, e - 1),
                   raw |-> SubSeq(t, 1, Len(t) - Len(v.rest))]
    IN IF e = 0 \/ ~HasPrefix(c, ":") \/ ~v.ok THEN NoScan
       ELSE IF HasPrefix(r, ",")
       THEN LET more == ScanMembers(From(r, 2))
            IN IF more.ok
               THEN [ok |-> TRUE, rest |-> more.rest, members |-> <<member>> \o more.members]
               ELSE NoScan
       ELSE IF HasPrefix(r, "}")
       THEN [ok |-> TRUE, rest |-> From(r, 2), members |-> <<member>>]
       ELSE NoScan

\* The members of the JSON object that is the whole of text; not ok when
\* text is not one JSON object.
WholeObject(s, v) ==
    IF HasPrefix(s, "{") /\ v.ok /\ SkipSpace(v.rest) = "" THEN v ELSE NoScan

ObjectAt(s) == WholeObject(s, ScanValue(s))

ParseObject(text) == ObjectAt(SkipSpace(text))

\* The kind of a value, told by the first character of its text.
Kind(raw) ==
    CASE HasPrefix(raw, "\"") -> "string"
      [] HasPrefix(raw, "{") -> "object"
      [] HasPrefix(raw, "[") -> "array"
      [] raw = "true" \/ raw = "false" -> "bool"
      [] raw = "null" -> "null"
      [] OTHER -> "number"

\* The character an escape \u00XX of the model stands for.
Unicode(code) ==
    CASE code = "003c" -> "<"
      [] code = "003e" -> ">"
      [] code = "0026" -> "&"
      [] OTHER -> "?"

\* The characters between the quotes of a string literal, escapes resolved.
RECURSIVE Unescape(_)
Unescape(s) ==
    IF s = "" THEN ""
    ELSE IF CharAt(s, 1) # "\\" THEN CharAt(s, 1) \o Unescape(From(s, 2))
    ELSE IF CharAt(s, 2) = "u" THEN Unicode(SubSeq(s, 3, 6)) \o Unescape(From(s, 7))
    ELSE (CASE CharAt(s, 2) = "n" -> "\n"
            [] CharAt(s, 2) = "t" -> "\t"
            [] CharAt(s, 2) = "r" -> "\r"
            [] OTHER -> CharAt(s, 2)) \o Unescape(From(s, 3))

\* json.Unmarshal of a string literal into a string.
Unquote(raw) == Unescape(SubSeq(raw, 2, Len(raw) - 1))

RECURSIVE Escape(_)
Escape(s) ==
    IF s = "" THEN ""
    ELSE (CASE CharAt(s, 1) = "\"" -> "\\\""
            [] CharAt(s, 1) = "\\" -> "\\\\"
            [] CharAt(s, 1) = "\n" -> "\\n"
            [] CharAt(s, 1) = "\t" -> "\\t"
            [] CharAt(s, 1) = "\r" -> "\\r"
            [] CharAt(s, 1) = "<" -> "\\u003c"
            [] CharAt(s, 1) = ">" -> "\\u003e"
            [] CharAt(s, 1) = "&" -> "\\u0026"
            [] OTHER -> CharAt(s, 1)) \o Escape(From(s, 2))

\* json.Marshal of a string.
Quote(s) == "\"" \o Escape(s) \o "\""
----------------------------------------------------------------------------
\* The message codec: Timestamp, Message and their JSON forms.

\* n / d and n % d for n given by its decimal digits.
RECURSIVE DivMod(_, _)
DivMod(digits, d) ==
    IF digits = "" THEN [q |-> 0, r |-> 0]
    ELSE LET p == DivMod(SubSeq(digits, 1, Len(digits) - 1), d)
             v == p.r * 10 + DigitValue(CharAt(digits, Len(digits)))
         IN [q |-> p.q * 10 + v \div d, r |-> v % d]

MillisPerDay == 86400000

\* time.UnixMilli(ms) for ms given by its sign and decimal digits; the
\* result is in the local zone, local minutes east of UTC.
UnixMilli(negative, digits, local) ==
    LET dm == DivMod(digits, MillisPerDay)
        day == IF ~negative \/ dm.r = 0 THEN (IF negative THEN -dm.q ELSE dm.q)
               ELSE -dm.q - 1
        ms == IF ~negative \/ dm.r = 0 THEN dm.r ELSE MillisPerDay - dm.r
    IN Time(day, ms \div 1000, (ms % 1000) * 1000000, local)

\* int64(n) for the float64 n that a number text denotes, as sign and
\* digits: the fraction is cut off.
Int64_Rounded(raw) ==
    LET negative == HasPrefix(raw, "-")
        body == IF negative THEN From(raw, 2) ELSE raw
        whole == SubSeq(body, 1, DigitRun(body))
        fraction == From(body, DigitRun(body) + 2)
        last == CharAt(whole, Len(whole))
        up == fraction # "" /\ DigitValue(CharAt(fraction, 1)) >= 5 /\ last # "9"
    IN [negative |-> negative,
        digits |-> IF up
                   THEN SubSeq(whole, 1, Len(whole) - 1)
                        \o CharAt(DigitChars, DigitValue(last) + 2)
                   ELSE whole]

Int64(raw) ==
    LET negative == HasPrefix(raw, "-")
        body == IF negative THEN From(raw, 2) ELSE raw
    IN [negative |-> negative, digits |-> SubSeq(body, 1, DigitRun(body))]

ErrTimestampFormat == "invalid timestamp string format: "
ErrTimestampType == "timestamp must be a string or number"

\* Timestamp.UnmarshalJSON(b).  json.Unmarshal(b, &s) succeeds for a string
\* and for null, which leaves s empty.
\* The string case: RFC3339Nano is tried first, then RFC3339.
FirstParsed(s, nano, seconds) ==
    IF nano.ok THEN [err |-> NoErr, time |-> nano.time]
    ELSE IF seconds.ok THEN [err |-> NoErr, time |-> seconds.time]
    ELSE [err |-> ErrTimestampFormat \o s, time |-> ZeroTime]

ParseTimestampString(s) == FirstParsed(s, Parse(RFC3339Nano, s), Parse(RFC3339, s))

\* The number case: milliseconds since the epoch.
FromMillis(n, local) == UnixMilli(n.negative, n.digits, local)

TimestampUnmarshalJSON(b, local) ==
    IF Kind(b) \in {"string", "null"}
    THEN ParseTimestampString(IF Kind(b) = "string" THEN Unquote(b) ELSE "")
    ELSE IF Kind(b) = "number"
    THEN [err |-> NoErr, time |-> FromMillis(Int64(b), local)]
    ELSE [err |-> ErrTimestampType, time |-> ZeroTime]

\* Timestamp.MarshalJSON.
TimestampMarshalJSON(t) == Quote(FormatRFC3339Nano(t))

\* strings.TrimSpace.
RECURSIVE TrimSpace(_)
TrimSpace(s) ==
    IF s # "" /\ CharAt(s, 1) \in JsonSpace THEN TrimSpace(From(s, 2))
    ELSE IF s # "" /\ CharAt(s, Len(s)) \in JsonSpace
    THEN TrimSpace(SubSeq(s, 1, Len(s) - 1))
    ELSE s

\* strconv.Atoi(s): an optional sign, then decimal digits.
Atoi(s) ==
    LET signed == HasPrefix(s, "-") \/ HasPrefix(s, "+")
        digits == IF signed THEN From(s, 2) ELSE s
    IN IF AllDigits(digits)
       THEN [ok |-> TRUE,
             n |-> IF HasPrefix(s, "-") THEN -DigitsValue(digits) ELSE DigitsValue(digits)]
       ELSE [ok |-> FALSE, n |-> 0]

\* json.Unmarshal(raw, &n) for an int n: a number text without fraction.
UnmarshalInt(raw) ==
    IF Kind(raw) = "number" /\ Atoi(raw).ok /\ ~HasPrefix(raw, "+")
    THEN Atoi(raw) ELSE [ok |-> FALSE, n |-> 0]

ErrNotInteger == "must be an integer value"
ErrNotNumeric == "must be a number or numeric string"

\* parseOptionalInt(raw); raw is empty when the member is missing.
parseOptionalInt(raw) ==
    IF Len(raw) = 0 \/ raw = "null" THEN [err |-> NoErr, n |-> Nil]
    ELSE IF UnmarshalInt(raw).ok THEN [err |-> NoErr, n |-> <<UnmarshalInt(raw).n>>]
    ELSE IF Kind(raw) = "string"
    THEN LET s == TrimSpace(Unquote(raw))
         IN IF s = "" THEN [err |-> NoErr, n |-> Nil]
            ELSE IF Atoi(s).ok THEN [err |-> NoErr, n |-> <<Atoi(s).n>>]
            ELSE [err |-> ErrNotInteger, n |-> Nil]
    ELSE [err |-> ErrNotNumeric, n |-> Nil]

ErrStringField == "json: cannot unmarshal into Go struct field of type string"
ErrSyntax == "invalid JSON"

\* The zero wireMessage of Message.UnmarshalJSON, with the error
\* json.Unmarshal has saved so far and whether it has given up.
ZeroWire ==
    [type |-> "", level |-> "", message |-> "", url |-> "", timestamp |-> ZeroTime,
     source |-> "", line |-> "", column |-> "", saved |-> NoErr, failed |-> NoErr]

\* json.Unmarshal stores one member into the wireMessage w.  A value of a
\* wrong type for a string field is saved as the error to return at the end
\* and decoding goes on; an error of Timestamp.UnmarshalJSON ends decoding.
StoreString(w, key, raw) ==
    IF Kind(raw) = "string" THEN [w EXCEPT ![key] = Unquote(raw)]
    ELSE IF Kind(raw) = "null" THEN w
    ELSE [w EXCEPT !.saved = IF w.saved = NoErr THEN ErrStringField ELSE w.saved]

StoreTimestamp(w, t) ==
    IF t.err = NoErr THEN [w EXCEPT !.timestamp = t.time] ELSE [w EXCEPT !.failed = t.err]

StoreMember(w, member, local) ==
    IF w.failed # NoErr THEN w
    ELSE IF member.key \in {"type", "level", "message", "url", "source"}
    THEN StoreString(w, member.key, member.raw)
    ELSE IF member.key = "timestamp"
    THEN StoreTimestamp(w, TimestampUnmarshalJSON(member.raw, local))
    ELSE IF member.key \in {"line", "column"}
    THEN [w EXCEPT ![member.key] = member.raw]
    ELSE w

RECURSIVE StoreMembers(_, _, _)
StoreMembers(w, members, local) ==
    IF members = <<>> THEN w
    ELSE StoreMembers(StoreMember(w, Head(members), local), Tail(members), local)

\* json.Unmarshal(b, &wire) in Message.UnmarshalJSON.
StoreObject(object, local) ==
    IF ~object.ok THEN [ZeroWire EXCEPT !.failed = ErrSyntax]
    ELSE StoreMembers(ZeroWire, object.members, local)

UnmarshalWire(b, local) == StoreObject(ParseObject(b), local)

\* Message.UnmarshalJSON(b): the message, or the error.
\* The rest of Message.UnmarshalJSON once json.Unmarshal has returned wire
\* and parseOptionalInt has read its line and column.
MessageOfWire(wire, line, column) ==
    IF wire.failed # NoErr THEN [msg |-> Nil, err |-> wire.failed]
    ELSE IF wire.saved # NoErr THEN [msg |-> Nil, err |-> wire.saved]
    ELSE IF line.err # NoErr THEN [msg |-> Nil, err |-> "invalid line: " \o line.err]
    ELSE IF column.err # NoErr THEN [msg |-> Nil, err |-> "invalid column: " \o column.err]
    ELSE [msg |-> <<[type |-> wire.type, level |-> wire.level,
                     message |-> wire.message, url |-> wire.url,
                     timestamp |-> wire.timestamp, source |-> wire.source,
                     line |-> line.n, column |-> column.n]>>,
          err |-> NoErr]

ParseWire(wire) ==
    MessageOfWire(wire, parseOptionalInt(wire.line), parseOptionalInt(wire.column))

MessageUnmarshalJSON(b, local) == ParseWire(UnmarshalWire(b, local))

\* strconv.Itoa of any integer.
FormatInt(n) == IF n < 0 THEN "-" \o Itoa(-n) ELSE Itoa(n)

\* json.Marshal(msg) of a Message: the members in the order of the struct's
\* fields, source, line and column left out when empty or nil.
MarshalMessage(m) ==
    "{\"type\":" \o Quote(m.type)
    \o ",\"level\":" \o Quote(m.level)
    \o ",\"message\":" \o Quote(m.message)
    \o ",\"url\":" \o Quote(m.url)
    \o ",\"timestamp\":" \o TimestampMarshalJSON(m.timestamp)
    \o (IF m.source # "" THEN ",\"source\":" \o Quote(m.source) ELSE "")
    \o (IF m.line # Nil THEN ",\"line\":" \o FormatInt(m.line[1]) ELSE "")
    \o (IF m.column # Nil THEN ",\"column\":" \o FormatInt(m.column[1]) ELSE "")
    \o "}"

----------------------------------------------------------------------------
\* internal/logger.

\* strings.ToLower and strings.ToUpper, on ASCII text.
LowerLetters == "abcdefghijklmnopqrstuvwxyz"

UpperLetters == "ABCDEFGHIJKLMNOPQRSTUVWXYZ"

\* The character c with each letter of from replaced by the letter at the
\* same place in to.
Mapped(c, from, to) ==
    IF \E i \in 1..Len(from) : CharAt(from, i) = c
    THEN CharAt(to, CHOOSE i \in 1..Len(from) : CharAt(from, i) = c)
    ELSE c

RECURSIVE ToLower(_)
ToLower(s) ==
    IF s = "" THEN ""
    ELSE Mapped(CharAt(s, 1), UpperLetters, LowerLetters) \o ToLower(From(s, 2))

RECURSIVE ToUpper(_)
ToUpper(s) ==
    IF s = "" THEN ""
    ELSE Mapped(CharAt(s, 1), LowerLetters, UpperLetters) \o ToUpper(From(s, 2))

\* The keys of the levelMap that logger.New builds.
LevelMap(list) == {ToLower(list[i]) : i \in 1..Len(list)}

\* ShouldLog without strings.ToLower.
ShouldLog_Exact(lv, level) == lv = {} \/ level \in lv

ShouldLog(lv, level) == lv = {} \/ ToLower(level) \in lv

\* msg.Timestamp.Format("2006-01-02 15:04:05.000")
FormatStamp(c) ==
    Pad(c.year, 4) \o "-" \o Pad(c.month, 2) \o "-" \o Pad(c.day, 2) \o " "
    \o Pad(c.hour, 2) \o ":" \o Pad(c.minute, 2) \o ":" \o Pad(c.second, 2)

FormatTime(t) == FormatStamp(Clock(t)) \o FormatFraction000(t.nsec)

\* formatLoc that writes a column without a line.
formatLoc_ColumnAlone(line, column) ==
    (IF line # Nil /\ line[1] > 0 THEN <<":", line[1]>> ELSE <<>>)
    \o (IF column # Nil /\ column[1] > 0 THEN <<":", column[1]>> ELSE <<>>)

formatLoc(line, column) ==
    IF line # Nil /\ line[1] > 0
    THEN IF column # Nil /\ column[1] > 0
         THEN <<":", line[1], ":", column[1]>>
         ELSE <<":", line[1]>>
    ELSE <<>>

\* The line Log builds, as the sequence of the pieces written to logLine.
FormatLine(m) ==
    <<"[", FormatTime(m.timestamp), "] [", ToUpper(m.level), "]">>
    \o (IF m.url # "" THEN <<" [", m.url, "]">> ELSE <<>>)
    \o (IF m.source # "" THEN <<" ", m.source>> \o formatLoc(m.line, m.column) ELSE <<>>)
    \o <<": ", m.message, "\n">>

\* The lines of the messages the host decodes, computed once.
LogLines == [m \in {ZeroMessage} |-> FormatLine(m)]

\* What l.file.WriteString may do: write the whole line, or fail having
\* written nothing or only the start of the line.
WriteStringOutcomes(line) == {[ok |-> TRUE, wrote |-> line]}
    \cup {[ok |-> FALSE, wrote |-> SubSeq(line, 1, k)] : k \in {0, Len(line) - 1}}

\* The error Log returns after l.file.WriteString.
LogResult_Swallowed(ok) == NoErr

LogResult(ok) == IF ok THEN NoErr ELSE ErrWriteLog

----------------------------------------------------------------------------
\* Host.ReadMessage.

\* The sanity limit of ReadMessage.
MaxMessageLen == 10 * 1024 * 1024

Min(a, b) == IF a < b THEN a ELSE b

\* The error of io.ReadFull that got `got` of the `want` bytes it asked for
\* before the stream ended.
ReadFullErr(got, want) ==
    IF got >= want THEN NoErr
    ELSE IF got = 0 THEN EOF
    ELSE "unexpected EOF"

\* ReadMessage's result when reading the length prefix failed with e.
LengthReadError_Wrapped(e) == IF e = NoErr THEN NoErr ELSE ErrReadLength

LengthReadError(e) ==
    IF e = NoErr THEN NoErr
    ELSE IF e = EOF THEN EOF
    ELSE ErrReadLength

\* ReadMessage's checks of the decoded length.
CheckLength_Inclusive(u) ==
    IF u.hi = 0 /\ u.lo = 0 THEN ErrZeroLength
    ELSE IF U32Greater(u, MaxMessageLen - 1) THEN ErrTooLarge
    ELSE NoErr

CheckLength_ZeroIsEOF(u) ==
    IF u.hi = 0 /\ u.lo = 0 THEN EOF
    ELSE IF U32Greater(u, MaxMessageLen) THEN ErrTooLarge
    ELSE NoErr

CheckLength(u) ==
    IF u.hi = 0 /\ u.lo = 0 THEN ErrZeroLength
    ELSE IF U32Greater(u, MaxMessageLen) THEN ErrTooLarge
    ELSE NoErr

\* The size of the buffer ReadMessage reads the body into.
BodyLength_InclHeader(n) == IF n > 4 THEN n - 4 ELSE n

BodyLength(n) == n

\* ReadMessage's result when reading the body failed with e.
BodyReadError_Bare(e) ==
    IF e = NoErr THEN NoErr
    ELSE IF e = EOF THEN EOF
    ELSE ErrReadBodyShort

BodyReadError(e) ==
    IF e = NoErr THEN NoErr
    ELSE IF e = EOF THEN ErrReadBodyEOF
    ELSE ErrReadBodyShort

----------------------------------------------------------------------------
\* Host.WriteResponse.

Response(success, errMsg) == [success |-> success, error |-> errMsg]

\* The two h.writer.Write calls: both succeed, the first fails (nothing is
\* written), or the second fails (the length prefix is already written).
WriteOutcomes == {"ok", "fail_length", "fail_body"}

\* json.Marshal(response): success always, error left out when it is empty.
MarshalResponse_NoOmit(response) ==
    "{\"success\":" \o (IF response.success THEN "true" ELSE "false")
    \o ",\"error\":" \o Quote(response.error) \o "}"

MarshalResponse(response) ==
    "{\"success\":" \o (IF response.success THEN "true" ELSE "false")
    \o (IF response.error # "" THEN ",\"error\":" \o Quote(response.error) ELSE "")
    \o "}"

\* What one h.writer.Write call adds to the stream: the four bytes of the
\* length prefix, or the text of the body.
LengthWrite(n, big) == [part |-> "length", bytes |-> PutUint32(n, big), text |-> ""]

BodyWrite(data) == [part |-> "body", bytes |-> <<>>, text |-> data]

\* The responses main sends: success, or the error of ReadMessage or Log.
Responses ==
    {Response(TRUE, "")}
    \cup {Response(FALSE, e) : e \in {ErrReadLength, ErrZeroLength, ErrTooLarge,
                                      ErrReadBodyEOF, ErrReadBodyShort, ErrParseJSON,
                                      ErrWriteLog}}

\* json.Marshal of each of them, computed once.
Marshalled == [response \in Responses |-> MarshalResponse(response)]

WriteData(out, data, outcome, big) ==
    CASE outcome = "ok" -> out \o <<LengthWrite(Len(data), big), BodyWrite(data)>>
      [] outcome = "fail_length" -> out
      [] outcome = "fail_body" -> out \o <<LengthWrite(Len(data), big)>>

WriteResponse(out, response, outcome, big) ==
    WriteData(out, Marshalled[response], outcome, big)

----------------------------------------------------------------------------
\* The browser side of the pipe: the frames it sends.

\* A frame as the peer builds it: the declared length and the payload bytes.
\*   max      a well-formed frame of the largest accepted size: a payload
\*            of exactly 10 MiB, {} followed by spaces
\*   zero     length prefix 0, no payload
\*   badjson  a 6-byte payload: }{ and four spaces
\*   over     a payload of 10 MiB + 1 bytes, whose first four bytes are the
\*            number 10 MiB - 3 and whose rest is spaces
FrameNames == {"max", "zero", "badjson", "over"}

Frame(name, big) ==
    CASE name = "max" ->
           [len |-> MaxMessageLen,
            payload |-> Lit(<<123, 125>>) \o <<Run(32, MaxMessageLen - 2)>>]
      [] name = "zero" -> [len |-> 0, payload |-> <<>>]
      [] name = "badjson" -> [len |-> 6, payload |-> Lit(<<125, 123>>) \o <<Run(32, 4)>>]
      [] name = "over" ->
           [len |-> MaxMessageLen + 1,
            payload |-> Lit(PutUint32(MaxMessageLen - 3, big))
                        \o <<Run(32, MaxMessageLen - 3)>>]

\* encodeMessage of the tests: the length prefix, then the payload.
EncodeFrame(name, big) ==
    Lit(PutUint32(Frame(name, big).len, big)) \o Frame(name, big).payload

\* Where the stream may end in the middle of a frame, after k bytes of it:
\* inside the length prefix (taken on the frame without payload), or, for
\* the two large frames, right after the prefix or one byte before the end
\* of the payload.
CutPoints(name, big) ==
    IF Frame(name, big).payload = <<>> THEN {1, 2, 3}
    ELSE IF Frame(name, big).len >= MaxMessageLen
    THEN {4, SLen(EncodeFrame(name, big)) - 1}
    ELSE {}

\* The bytes that occur on the input stream.
ByteAlphabet ==
    {0, 32, 123, 125}
    \cup UNION {{PutUint32(n, big)[i] : i \in 1..4} :
                  n \in {6, MaxMessageLen - 3, MaxMessageLen, MaxMessageLen + 1},
                  big \in BOOLEAN}

\* The arguments after the program name.
ArgLists == {<<>>, <<"browser.log">>, <<"browser.log", "ERROR">>}

----------------------------------------------------------------------------
\* The host process is one of three parts of the model; the codec and the
\* manifest router stand still while it runs.

\* No frame.
NoFrame == [prefix |-> <<>>, body |-> ""]

CodecOff == tz = 0 /\ cstep = "off" /\ onWire = NoFrame /\ given = Nil

RouterOff ==
    /\ hostBinary = FALSE
    /\ manifests = <<>>
    /\ wrappers = {}
    /\ sessions = <<>>
    /\ registered = <<>>
    /\ installed = <<>>
    /\ ioFaults = 0

\* No session is up.
NamingOff == running = {}

\* No call of the session state functions yet.
NoStateOp ==
    [n |-> 0, op |-> "none", fault |-> FALSE, result |-> NoErr, got |-> <<>>,
     record |-> "none", logPath |-> "", levels |-> [isNil |-> TRUE, items |-> <<>>]]

StateOff == stateFile = Nil /\ stateLog = NoStateOp

\* The log file of the writer used on its own: whether it exists and the
\* pieces written to it.
NoFile == [exists |-> FALSE, content |-> <<>>]

\* No call of Log yet.
NoLog == [n |-> 0, msg |-> Nil, given |-> <<>>, before |-> <<>>, after |-> <<>>,
          result |-> NoErr]

\* No call of New yet.
NoOpen == [disk |-> NoFile, levels |-> <<>>]

LoggerOff ==
    /\ logger = Nil /\ disk = NoFile /\ atOpen = NoOpen /\ lastLog = NoLog
    /\ mu = Nil /\ callers = <<>>

Init ==
    /\ bigEndian \in BOOLEAN
    /\ args \in ArgLists
    /\ stdin = <<>>
    /\ stdinClosed = FALSE
    /\ pc = "start"
    /\ levels = {}
    /\ logPath = ""
    /\ messageLen = 0
    /\ msg = Nil
    /\ err = NoErr
    /\ logFile = <<>>
    /\ stdout = <<>>
    /\ exitCode = -1
    /\ sent = <<>>
    /\ outcomes = <<>>
    /\ acks = <<>>
    /\ logged = {}
    /\ consumed = 0
    /\ readStart = 0
    /\ faults = 0
    /\ CodecOff
    /\ RouterOff
    /\ NamingOff
    /\ StateOff
    /\ LoggerOff

hostVars == <<pc, levels, messageLen, msg, err, logFile, stdout, exitCode,
              outcomes, acks, logged, consumed, readStart, faults>>

\* The frames of the peer that the host has not read to their end.
InPipe == {k \in 1..Len(sent) : sent[k].end > consumed}

\* The peer writes one whole frame to the pipe.
PeerSend(name) ==
    /\ ~stdinClosed
    /\ Len(sent) < MaxFrames
    /\ Cardinality(InPipe) < PipeFrames
    /\ stdin' = stdin \o EncodeFrame(name, bigEndian)
    /\ sent' = Append(sent, [name |-> name, whole |-> TRUE,
                             end |-> consumed + SLen(stdin')])
    /\ UNCHANGED <<codecVars, routerVars, namingVars, loggerVars, stateVars, startVars, bigEndian, args, stdinClosed>>
    /\ UNCHANGED hostVars

\* The peer writes the first k bytes of a frame and the pipe closes.
PeerCut(name, k) ==
    /\ ~stdinClosed
    /\ Len(sent) < MaxFrames
    /\ Cardinality(InPipe) < PipeFrames
    /\ stdin' = stdin \o STake(EncodeFrame(name, bigEndian), k)
    /\ stdinClosed' = TRUE
    /\ sent' = Append(sent, [name |-> name, whole |-> FALSE,
                             end |-> consumed + SLen(stdin')])
    /\ UNCHANGED <<codecVars, routerVars, namingVars, loggerVars, stateVars, startVars, bigEndian, args>>
    /\ UNCHANGED hostVars

\* The peer closes the pipe between frames.
PeerClose ==
    /\ ~stdinClosed
    /\ stdinClosed' = TRUE
    /\ UNCHANGED <<codecVars, routerVars, namingVars, loggerVars, stateVars, startVars, bigEndian, args, stdin, sent>>
    /\ UNCHANGED hostVars

\* main that goes on to return when logger.New fails, instead of os.Exit(1).
Startup_ExitZero ==
    /\ pc = "start"
    /\ \/ /\ Len(args) < 1
          /\ pc' = "exited" /\ exitCode' = 1
          /\ UNCHANGED <<levels, logPath>>
       \/ /\ Len(args) >= 1
          /\ logPath' = args[1]
          /\ \E opened \in BOOLEAN :
                IF opened
                THEN /\ levels' = LevelMap([i \in 1..(Len(args) - 1) |-> ToLower(args[i + 1])])
                     /\ pc' = "read_length"
                     /\ UNCHANGED exitCode
                ELSE /\ pc' = "exited" /\ exitCode' = 0
                     /\ UNCHANGED levels
    /\ UNCHANGED <<codecVars, routerVars, namingVars, loggerVars, stateVars, bigEndian, args, stdin, stdinClosed, messageLen, msg, err,
                   logFile, stdout, sent, outcomes, acks, logged, consumed,
                   readStart, faults>>

\* main up to the loop: the argument check and logger.New.
Startup ==
    /\ pc = "start"
    /\ \/ /\ Len(args) < 1
          /\ pc' = "exited" /\ exitCode' = 1
          /\ UNCHANGED <<levels, logPath>>
       \/ /\ Len(args) >= 1
          /\ logPath' = args[1]
          /\ \E opened \in BOOLEAN :
                IF opened
                THEN /\ levels' = LevelMap([i \in 1..(Len(args) - 1) |-> ToLower(args[i + 1])])
                     /\ pc' = "read_length"
                     /\ UNCHANGED exitCode
                ELSE /\ pc' = "exited" /\ exitCode' = 1
                     /\ UNCHANGED levels
    /\ UNCHANGED <<codecVars, routerVars, namingVars, loggerVars, stateVars, bigEndian, args, stdin, stdinClosed, messageLen, msg, err,
                   logFile, stdout, sent, outcomes, acks, logged, consumed,
                   readStart, faults>>

\* ReadMessage returns (m, e) having taken `used` bytes off the stream since
\* the length prefix was read or attempted.
Return(m, e, used, declared) ==
    /\ msg' = m
    /\ err' = e
    /\ stdin' = SDrop(stdin, used)
    /\ consumed' = consumed + used
    /\ outcomes' = Append(outcomes,
                          [result |-> IF e = NoErr THEN "msg" ELSE e,
                           start |-> IF pc = "read_length" THEN consumed ELSE readStart,
                           end |-> consumed + used,
                           declared |-> declared,
                           accepted |-> e = NoErr /\ ShouldLog(levels, m[1].level)])
    /\ pc' = "returned"

\* ReadMessage, first half: io.ReadFull of the 4-byte length prefix, which
\* returns once four bytes are there or the stream has ended, and the checks
\* of the length.
ReadLength ==
    /\ pc = "read_length"
    /\ Len(outcomes) < MaxReads
    /\ SLen(stdin) >= 4 \/ stdinClosed
    /\ LET got == Min(SLen(stdin), 4)
           e == LengthReadError(ReadFullErr(got, 4))
           u == Uint32([i \in 1..4 |-> ByteAt(stdin, i)], bigEndian)
       IN IF e # NoErr
          THEN /\ Return(Nil, e, got, NoLength)
               /\ UNCHANGED <<messageLen, readStart>>
          ELSE IF CheckLength(u) # NoErr
          THEN /\ Return(Nil, CheckLength(u), 4, u)
               /\ UNCHANGED <<messageLen, readStart>>
          ELSE /\ messageLen' = U32Value(u)
               /\ readStart' = consumed
               /\ stdin' = SDrop(stdin, 4)
               /\ consumed' = consumed + 4
               /\ pc' = "read_body"
               /\ UNCHANGED <<msg, err, outcomes>>
    /\ UNCHANGED <<codecVars, routerVars, namingVars, loggerVars, stateVars, startVars, bigEndian, args, stdinClosed, levels, logFile, stdout,
                   exitCode, sent, acks, logged, faults>>

\* ReadMessage, second half: io.ReadFull of the body and json.Unmarshal.
ReadBody ==
    /\ pc = "read_body"
    /\ SLen(stdin) >= BodyLength(messageLen) \/ stdinClosed
    /\ LET want == BodyLength(messageLen)
           got == Min(SLen(stdin), want)
           e == BodyReadError(ReadFullErr(got, want))
           parsed == Unmarshal(STake(stdin, want))
       IN IF e # NoErr
          THEN Return(Nil, e, got, U32(messageLen))
          ELSE Return(parsed.msg, parsed.err, want, U32(messageLen))
    /\ UNCHANGED <<codecVars, routerVars, namingVars, loggerVars, stateVars, startVars, bigEndian, args, stdinClosed, levels, messageLen, logFile,
                   stdout, exitCode, sent, acks, logged, readStart, faults>>

\* Where main goes after each branch of the loop body.
AfterLog_SkipAck(e) == IF e # NoErr THEN "read_length" ELSE "ack"

AfterLog(e) == "ack"

AfterAck_StopOnFailure(outcome) == IF outcome = "ok" THEN "read_length" ELSE "exited"

AfterAck(outcome) == "read_length"

\* host.SendAck(success, errMsg) with the given outcome of the writes.
SendAck(success, errMsg, outcome) ==
    /\ outcome # "ok" => faults < MaxFaults
    /\ faults' = (IF outcome = "ok" THEN faults ELSE faults + 1)
    /\ stdout' = WriteResponse(stdout, Response(success, errMsg), outcome, bigEndian)
    /\ acks' = Append(acks, [read |-> Len(outcomes), success |-> success,
                             error |-> errMsg, outcome |-> outcome])

\* main: ReadMessage returned io.EOF; break, and main returns.
BreakOnEOF ==
    /\ pc = "returned"
    /\ err = EOF
    /\ pc' = "exited"
    /\ exitCode' = 0
    /\ UNCHANGED <<codecVars, routerVars, namingVars, loggerVars, stateVars, startVars, bigEndian, args, stdin, stdinClosed, levels, messageLen,
                   msg, err, logFile, stdout, sent, outcomes, acks, logged,
                   consumed, readStart, faults>>

\* main: ReadMessage returned another error; SendAck(false, err.Error()), continue.
AckReadError ==
    /\ pc = "returned"
    /\ err \notin {NoErr, EOF}
    /\ \E outcome \in WriteOutcomes :
          /\ SendAck(FALSE, err, outcome)
          /\ pc' = AfterAck(outcome)
          /\ exitCode' = (IF AfterAck(outcome) = "exited" THEN 1 ELSE exitCode)
    /\ err' = NoErr
    /\ UNCHANGED <<codecVars, routerVars, namingVars, loggerVars, stateVars, startVars, bigEndian, args, stdin, stdinClosed, levels, messageLen,
                   msg, logFile, sent, outcomes, logged, consumed, readStart>>

\* log.Log(msg) without its test of ShouldLog.
LogMessage_NoFilter ==
    /\ pc = "returned"
    /\ err = NoErr
    /\ \E w \in WriteStringOutcomes(LogLines[msg[1]]) :
          /\ ~w.ok => faults < MaxFaults
          /\ faults' = (IF w.ok THEN faults ELSE faults + 1)
          /\ logFile' = logFile \o w.wrote
          /\ logged' = (IF w.ok THEN logged \cup {Len(outcomes)} ELSE logged)
          /\ err' = LogResult(w.ok)
          /\ pc' = AfterLog(LogResult(w.ok))
    /\ UNCHANGED <<codecVars, routerVars, namingVars, loggerVars, stateVars, startVars, bigEndian, args, stdin, stdinClosed, levels, messageLen,
                   msg, stdout, exitCode, sent, outcomes, acks, consumed,
                   readStart>>

\* main: log.Log(msg).  A filtered-out level returns nil without writing.
LogMessage ==
    /\ pc = "returned"
    /\ err = NoErr
    /\ IF ~ShouldLog(levels, msg[1].level)
       THEN /\ err' = NoErr
            /\ pc' = AfterLog(NoErr)
            /\ UNCHANGED <<logFile, logged, faults>>
       ELSE \E w \in WriteStringOutcomes(LogLines[msg[1]]) :
               /\ ~w.ok => faults < MaxFaults
               /\ faults' = (IF w.ok THEN faults ELSE faults + 1)
               /\ logFile' = logFile \o w.wrote
               /\ logged' = (IF w.ok THEN logged \cup {Len(outcomes)} ELSE logged)
               /\ err' = LogResult(w.ok)
               /\ pc' = AfterLog(LogResult(w.ok))
    /\ UNCHANGED <<codecVars, routerVars, namingVars, loggerVars, stateVars, startVars, bigEndian, args, stdin, stdinClosed, levels, messageLen,
                   msg, stdout, exitCode, sent, outcomes, acks, consumed,
                   readStart>>

\* main: the acknowledgment after log.Log: SendAck(false, err.Error()) and
\* continue when Log failed, SendAck(true, "") otherwise.
AckLogged ==
    /\ pc = "ack"
    /\ \E outcome \in WriteOutcomes :
          /\ IF err # NoErr THEN SendAck(FALSE, err, outcome)
                            ELSE SendAck(TRUE, "", outcome)
          /\ pc' = AfterAck(outcome)
          /\ exitCode' = (IF AfterAck(outcome) = "exited" THEN 1 ELSE exitCode)
    /\ err' = NoErr
    /\ UNCHANGED <<codecVars, routerVars, namingVars, loggerVars, stateVars, startVars, bigEndian, args, stdin, stdinClosed, levels, messageLen,
                   msg, logFile, sent, outcomes, logged, consumed, readStart>>

Peer ==
    \/ \E name \in FrameNames : PeerSend(name)
    \/ \E name \in FrameNames : \E k \in CutPoints(name, bigEndian) : PeerCut(name, k)
    \/ PeerClose

Host ==
    \/ Startup
    \/ ReadLength
    \/ ReadBody
    \/ BreakOnEOF
    \/ AckReadError
    \/ LogMessage
    \/ AckLogged

Next == Peer \/ Host

Spec == Init /\ [][Next]_vars

\* The host process runs whenever it can take a step.
LiveSpec == Spec /\ WF_vars(Host)

----------------------------------------------------------------------------
\* Properties of the host loop and of ReadMessage.
\*
\* outcomes[r] is the result of the r-th ReadMessage call: the bytes it took
\* off the stream are those from offset start to offset end, and declared is
\* the length prefix it decoded (NoLength when it did not get four bytes).
\* acks[i].read is the call that the i-th acknowledgment answers.

\* Supporting invariant: every byte on the input stream is in ByteAlphabet,
\* which holds no digit, quote, bracket, sign or letter, so that no JSON
\* text other than an empty object can occur in a payload; and the cap on
\* ReadMessage calls is never reached.
StreamInAlphabet ==
    /\ \A i \in 1..Len(stdin) : stdin[i].b \in ByteAlphabet /\ stdin[i].n > 0
    /\ ByteAlphabet \cap ((48..57) \cup {34, 45, 91, 93, 102, 110, 116}) = {}
    /\ Len(outcomes) < MaxReads

AcksOf(r) == {i \in 1..Len(acks) : acks[i].read = r}

\* The r-th iteration of the loop has run to its end.
IterationDone(r) == r < Len(outcomes) \/ pc \in {"read_length", "read_body", "exited"}

\* The number of complete lines in the log file.
WholeLines(f) == Cardinality({j \in 1..Len(f) : f[j] = "\n"})

\* C1: a success acknowledgment for a message that passed the level filter
\* is written only after the whole line of that message was appended to the
\* log file.
C1_AppendBeforeAck ==
    \A i \in 1..Len(acks) :
        (acks[i].success /\ outcomes[acks[i].read].accepted)
            => /\ acks[i].read \in logged
               /\ WholeLines(logFile) >=
                    Cardinality({j \in 1..i : acks[j].success /\ outcomes[acks[j].read].accepted})

C1_Witness ==
    \E i \in 1..Len(acks) :
        /\ acks[i].success /\ acks[i].outcome = "ok"
        /\ outcomes[acks[i].read].accepted
        /\ acks[i].read \in logged
        /\ logFile # <<>>

\* C2: every ReadMessage outcome other than end-of-stream gets exactly one
\* acknowledgment write attempt before the next ReadMessage call, and
\* end-of-stream gets none.
C2_OneAckPerRead ==
    \A r \in 1..Len(outcomes) :
        IF outcomes[r].result = EOF THEN AcksOf(r) = {}
        ELSE /\ Cardinality(AcksOf(r)) <= 1
             /\ IterationDone(r) => Cardinality(AcksOf(r)) = 1

C2_Witness ==
    /\ pc = "exited" /\ exitCode = 0
    /\ Len(outcomes) = 3 /\ Len(acks) = 2
    /\ outcomes[1].result = ErrParseJSON
    /\ outcomes[2].result = "msg"
    /\ outcomes[3].result = EOF

\* What the peer expects back for a frame it sent.
Answers(ack, frame) ==
    CASE frame.name = "max" -> ack.success
      [] frame.name = "zero" -> ~ack.success /\ ack.error = ErrZeroLength
      [] frame.name = "badjson" -> ~ack.success /\ ack.error = ErrParseJSON
      [] frame.name = "over" -> ~ack.success /\ ack.error = ErrTooLarge

\* C3: when the peer sent whole frames only and then closed the stream, and
\* no write failed, the acknowledgments are 1:1 with the frames: as many
\* acknowledgments as frames, the k-th answering the k-th frame.
C3_AcksOneToOne ==
    (/\ pc = "exited" /\ exitCode = 0
     /\ faults = 0
     /\ \A k \in 1..Len(sent) : sent[k].whole)
        => /\ Len(acks) = Len(sent)
           /\ \A k \in 1..Len(acks) : Answers(acks[k], sent[k])

\* C4: once the loop has started, the process ends only after a ReadMessage
\* call that reported end-of-stream: no decode error, read error, failed
\* append or failed acknowledgment write ends it.
C4_StopsOnlyOnEOF ==
    (pc = "exited" /\ Len(outcomes) > 0)
        => /\ exitCode = 0
           /\ outcomes[Len(outcomes)].result = EOF
           /\ \A r \in 1..(Len(outcomes) - 1) : outcomes[r].result # EOF

C4_Witness ==
    /\ pc = "exited"
    /\ \E r \in 1..Len(outcomes) : outcomes[r].result \notin {"msg", EOF}
    /\ \E i \in 1..Len(acks) : acks[i].outcome # "ok"

\* C5: once the stream is closed, the loop eventually sees end-of-stream and
\* the process exits with code 0.
C5_EventuallyExits ==
    (stdinClosed /\ pc \notin {"start", "exited"}) ~> (pc = "exited" /\ exitCode = 0)

C5_Witness ==
    /\ pc = "exited" /\ exitCode = 0
    /\ \E k \in 1..Len(sent) : ~sent[k].whole
    /\ \E r \in 1..Len(outcomes) : outcomes[r].result = ErrTooLarge

FrameEnds == {0} \cup {sent[k].end : k \in 1..Len(sent)}

\* C6: a ReadMessage call that fails to parse the payload of a frame with
\* length prefix n has taken exactly 4 + n bytes off the stream; when it
\* started at the beginning of a frame of the peer, it ends at the end of
\* that frame and the next call starts there.
C6_BadPayloadConsumed ==
    \A r \in 1..Len(outcomes) :
        outcomes[r].result = ErrParseJSON
            => /\ outcomes[r].end - outcomes[r].start = 4 + U32Value(outcomes[r].declared)
               /\ outcomes[r].start \in FrameEnds => outcomes[r].end \in FrameEnds
               /\ r < Len(outcomes) => outcomes[r + 1].start = outcomes[r].end

C6_Witness ==
    \E r \in 1..(Len(outcomes) - 1) :
        /\ outcomes[r].result = ErrParseJSON
        /\ outcomes[r].start \in FrameEnds
        /\ outcomes[r + 1].result = "msg"

\* C7: a length prefix above 10 MiB makes ReadMessage fail with the
\* too-large error having taken only the four prefix bytes off the stream; a
\* prefix of exactly 10 MiB is not rejected as too large.
C7_TooLarge ==
    \A r \in 1..Len(outcomes) :
        outcomes[r].declared # NoLength
            => /\ (outcomes[r].declared.hi > 160
                     \/ (outcomes[r].declared.hi = 160 /\ outcomes[r].declared.lo > 0))
                    => /\ outcomes[r].result = ErrTooLarge
                       /\ outcomes[r].end - outcomes[r].start = 4
               /\ (outcomes[r].declared.hi = 160 /\ outcomes[r].declared.lo = 0)
                    => outcomes[r].result # ErrTooLarge

C7_Witness ==
    /\ \E r \in 1..Len(outcomes) :
          /\ outcomes[r].result = ErrTooLarge
          /\ outcomes[r].end - outcomes[r].start = 4
          /\ r = Len(outcomes) /\ pc = "returned"
          /\ stdin = <<>> /\ stdinClosed
    /\ \E r \in 1..Len(outcomes) :
          /\ outcomes[r].declared = [hi |-> 160, lo |-> 0]
          /\ outcomes[r].result = "msg"

\* C8: a length prefix of 0 always makes ReadMessage return an error that is
\* not end-of-stream, never a message.
C8_ZeroLengthRejected ==
    \A r \in 1..Len(outcomes) :
        outcomes[r].declared = [hi |-> 0, lo |-> 0]
            => outcomes[r].result \notin {"msg", EOF}

C8_Witness ==
    \E r \in 1..Len(outcomes) :
        outcomes[r].declared = [hi |-> 0, lo |-> 0] /\ outcomes[r].result = ErrZeroLength

\* C9: when the stream ends before ReadMessage got the four bytes of a
\* length prefix (it got 0, 1, 2 or 3), the call signals clean end of stream.
C9_ShortPrefixIsEOF ==
    \A r \in 1..Len(outcomes) :
        (outcomes[r].declared = NoLength /\ outcomes[r].end - outcomes[r].start < 4)
            => outcomes[r].result = EOF

\* C10: ReadMessage reports end-of-stream only for a call that found the
\* stream ended before any byte of a frame; a call that decoded a length
\* prefix and then got fewer payload bytes than declared (none included)
\* returns an error other than end-of-stream.
C10_EOFOnlyBetweenFrames ==
    \A r \in 1..Len(outcomes) :
        /\ outcomes[r].result = EOF
             => (outcomes[r].declared = NoLength /\ outcomes[r].end = outcomes[r].start)
        /\ (/\ outcomes[r].declared # NoLength
            /\ outcomes[r].result \notin {ErrZeroLength, ErrTooLarge}
            /\ outcomes[r].end - outcomes[r].start < 4 + U32Value(outcomes[r].declared))
             => outcomes[r].result \in {ErrReadBodyEOF, ErrReadBodyShort}

C10_Witness ==
    /\ \E r \in 1..Len(outcomes) :
          outcomes[r].result = ErrReadBodyEOF /\ outcomes[r].end - outcomes[r].start = 4
    /\ \E r \in 1..Len(outcomes) : outcomes[r].result = EOF

----------------------------------------------------------------------------
\* The codec as both ends: a frame is put on the wire, either by a peer that
\* writes a JSON document of its own or by encodeMessage for a Message, and
\* ReadMessage decodes it; a decoded message may be encoded again.

\* The host process and the manifest router stand still.
HostOff ==
    /\ args = <<>> /\ stdin = <<>> /\ stdinClosed = FALSE /\ pc = "off"
    /\ levels = {} /\ messageLen = 0 /\ logFile = <<>> /\ stdout = <<>>
    /\ exitCode = -1 /\ sent = <<>> /\ outcomes = <<>> /\ acks = <<>>
    /\ logged = {} /\ consumed = 0 /\ readStart = 0 /\ faults = 0
    /\ logPath = ""

\* Timestamp values a peer sends, each with the shape it has for the
\* decode contract (an ISO-8601 string with a fraction of the second, one
\* without, a number, anything else) and the instant it denotes.
TimestampCases ==
    {[raw |-> "\"2023-10-15T12:30:45.123456789Z\"", shape |-> "fraction",
      at |-> Date(2023, 10, 15, 12, 30, 45, 123456789, 0)],
     [raw |-> "\"2024-01-01T00:00:00.000Z\"", shape |-> "fraction",
      at |-> Date(2024, 1, 1, 0, 0, 0, 0, 0)],
     [raw |-> "\"2023-10-15T14:30:45.5+02:00\"", shape |-> "fraction",
      at |-> Date(2023, 10, 15, 12, 30, 45, 500000000, 0)],
     [raw |-> "\"2023-10-15T12:30:45Z\"", shape |-> "seconds",
      at |-> Date(2023, 10, 15, 12, 30, 45, 0, 0)],
     [raw |-> "\"1969-12-31T18:29:59-05:30\"", shape |-> "seconds",
      at |-> Date(1969, 12, 31, 23, 59, 59, 0, 0)],
     [raw |-> "1697371845123", shape |-> "number",
      at |-> Date(2023, 10, 15, 12, 10, 45, 123000000, 0)],
     [raw |-> "1697371845123.456", shape |-> "number",
      at |-> Date(2023, 10, 15, 12, 10, 45, 123000000, 0)],
     [raw |-> "1697371845123.999", shape |-> "number",
      at |-> Date(2023, 10, 15, 12, 10, 45, 123000000, 0)],
     [raw |-> "0", shape |-> "number", at |-> Date(1970, 1, 1, 0, 0, 0, 0, 0)],
     [raw |-> "-1.5", shape |-> "number",
      at |-> Date(1969, 12, 31, 23, 59, 59, 999000000, 0)],
     [raw |-> "253402300800000", shape |-> "number",
      at |-> Date(10000, 1, 1, 0, 0, 0, 0, 0)]}
    \cup {[raw |-> r, shape |-> "other", at |-> ZeroTime] :
            r \in {"true", "{}", "[]", "[1697371845123]", "null", "\"\"",
                   "\"not a valid timestamp\"", "\"1697371845123\"",
                   "\"2023-10-15\"", "\"2023-10-15 12:30:45\"",
                   "\"2023-13-15T12:30:45Z\"", "\"2023-10-15T12:30:45\""}}

\* Line and column values a peer sends, each with its shape for the decode
\* contract (a number, a string of digits with or without whitespace around
\* it, an empty string or null, anything else) and the number it denotes.
IntCases ==
    {[raw |-> "42", shape |-> "number", n |-> 42],
     [raw |-> "0", shape |-> "number", n |-> 0],
     [raw |-> "-5", shape |-> "number", n |-> -5],
     [raw |-> "1.5", shape |-> "number", n |-> 1],
     [raw |-> "\"42\"", shape |-> "digits", n |-> 42],
     [raw |-> "\" 42 \"", shape |-> "digits", n |-> 42],
     [raw |-> "\"007\"", shape |-> "digits", n |-> 7],
     [raw |-> "\"\"", shape |-> "empty", n |-> 0],
     [raw |-> "null", shape |-> "empty", n |-> 0]}
    \cup {[raw |-> r, shape |-> "other", n |-> 0] :
            r \in {"\"-5\"", "\"+5\"", "\"4x\"", "\"4 2\"", "\"1.5\"", "true",
                   "[]", "{}"}}

\* The member key: raw with the comma before it; nothing for no value.
Member(key, raw) == IF raw = "" THEN "" ELSE "," \o Quote(key) \o ":" \o raw

\* A document of a peer: type, level, message and url, then the optional
\* members.  An empty raw leaves the member out.
Document(type, timestamp, line, column) ==
    "{\"type\":" \o type \o ",\"level\":\"error\",\"message\":\"boom\""
    \o ",\"url\":\"http://localhost:3000/\"" \o Member("timestamp", timestamp)
    \o ",\"source\":\"app.js\"" \o Member("line", line) \o Member("column", column)
    \o "}"

TimestampRaws == {c.raw : c \in TimestampCases} \cup {""}

LineRaws == {c.raw : c \in IntCases} \cup {""}

ColumnRaws == {"", "2", "\"x\""}

\* The documents of the peer: every timestamp value with and without a type
\* of the wrong kind, every line value with every column value, and a few
\* texts that are not messages.
Documents ==
    {Document(type, timestamp, "", "") :
        type \in {"\"console\"", "1"}, timestamp \in TimestampRaws}
    \cup {Document("\"console\"", "0", line, column) :
             line \in LineRaws, column \in ColumnRaws}
    \cup {"{}", " { } ", "}{", "[]", "{\"timestamp\":0,}"}

\* The times of the messages handed to encodeMessage.
Times ==
    {ZeroTime,
     Date(2023, 10, 15, 12, 30, 45, 123456789, 0),
     Date(2023, 10, 15, 14, 30, 45, 120000000, 120),
     Date(1969, 12, 31, 18, 29, 59, 0, -330),
     Date(9999, 12, 31, 23, 59, 59, 999999999, 0),
     Date(10000, 1, 1, 0, 0, 0, 0, 0),
     Date(10000, 1, 1, 0, 30, 0, 0, 60)}

\* The messages handed to encodeMessage.
Messages ==
    [type : {"console"}, level : {"error"},
     message : {"boom", "a \"b\" <c> & d\\e\n"},
     url : {"", "http://localhost:3000/"},
     timestamp : Times,
     source : {"", "app.js"},
     line : {Nil, <<0>>, <<42>>, <<-1>>},
     column : {Nil, <<10>>}]

\* The offsets of the local zone, in minutes east of UTC.
LocalOffsets == {0, 120}

\* encodeMessage(t, msg): json.Marshal and the length prefix.
Framed(data, big) == [prefix |-> PutUint32(Len(data), big), body |-> data]

encodeMessage(m, big) == Framed(MarshalMessage(m), big)

\* Host.ReadMessage on a stream that holds the frame f.
\* json.Unmarshal(messageBytes, &msg) has returned decoded.
Parsed(decoded) ==
    IF decoded.err # NoErr THEN [msg |-> Nil, err |-> ErrParseJSON \o ": " \o decoded.err]
    ELSE decoded

\* io.ReadFull of the want bytes of the body, then the decoding.
BodyRead(f, want, bodyErr, local) ==
    IF bodyErr # NoErr THEN [msg |-> Nil, err |-> bodyErr]
    ELSE Parsed(MessageUnmarshalJSON(SubSeq(f.body, 1, want), local))

BodyOf(f, want, local) ==
    BodyRead(f, want, BodyReadError(ReadFullErr(Len(f.body), want)), local)

\* The checks of the length read and the rest of ReadMessage.
ReadChecked(f, lengthErr, messageLength, local) ==
    IF lengthErr # NoErr THEN [msg |-> Nil, err |-> lengthErr]
    ELSE IF CheckLength(messageLength) # NoErr
    THEN [msg |-> Nil, err |-> CheckLength(messageLength)]
    ELSE BodyOf(f, BodyLength(U32Value(messageLength)), local)

ReadMessage(f, big, local) ==
    ReadChecked(f, LengthReadError(ReadFullErr(Len(f.prefix), 4)),
                Uint32(f.prefix, big), local)

CodecInit ==
    /\ HostOff
    /\ NamingOff
    /\ StateOff
    /\ LoggerOff
    /\ RouterOff
    /\ bigEndian \in BOOLEAN
    /\ tz \in LocalOffsets
    /\ err = NoErr
    /\ given = Nil
    /\ \/ /\ cstep = "frame"
          /\ msg = Nil
          /\ \E doc \in Documents :
                onWire = [prefix |-> PutUint32(Len(doc), bigEndian), body |-> doc]
       \/ /\ cstep = "message"
          /\ onWire = NoFrame
          /\ \E m \in Messages : msg = <<m>>

\* encodeMessage puts the message at hand on the wire.
EncodeMessage ==
    /\ cstep \in {"message", "read"}
    /\ err = NoErr
    /\ given' = msg
    /\ onWire' = encodeMessage(msg[1], bigEndian)
    /\ msg' = Nil
    /\ cstep' = "frame"
    /\ UNCHANGED <<routerVars, namingVars, loggerVars, stateVars, startVars, bigEndian, args, stdin, stdinClosed, pc, levels,
                   messageLen, err, logFile, stdout, exitCode, sent, outcomes,
                   acks, logged, consumed, readStart, faults, tz>>

\* ReadMessage decodes the frame on the wire.
ReadFrame ==
    /\ cstep = "frame"
    /\ \E result \in {ReadMessage(onWire, bigEndian, tz)} :
          msg' = result.msg /\ err' = result.err
    /\ cstep' = "read"
    /\ UNCHANGED <<routerVars, namingVars, loggerVars, stateVars, startVars, bigEndian, args, stdin, stdinClosed, pc, levels,
                   messageLen, logFile, stdout, exitCode, sent, outcomes,
                   acks, logged, consumed, readStart, faults, tz, onWire, given>>

CodecNext == EncodeMessage \/ ReadFrame

CodecSpec == CodecInit /\ [][CodecNext]_vars

----------------------------------------------------------------------------
\* Properties of the codec.

\* The text of the member key of the document doc, empty when doc is not an
\* object or has no such member.
RECURSIVE Lookup(_, _)
Lookup(members, key) ==
    IF members = <<>> THEN ""
    ELSE IF members[Len(members)].key = key THEN members[Len(members)].raw
    ELSE Lookup(SubSeq(members, 1, Len(members) - 1), key)

RawOf(doc, key) == Lookup(ParseObject(doc).members, key)

\* ReadMessage has returned for a frame that a peer wrote.
PeerFrameRead == cstep = "read" /\ given = Nil

\* ReadMessage rejected the frame for its timestamp.
TimestampRejected ==
    \/ HasPrefix(err, ErrParseJSON \o ": " \o ErrTimestampFormat)
    \/ err = ErrParseJSON \o ": " \o ErrTimestampType

\* C11: a frame whose message has no parseable timestamp (a value of a
\* wrong type, a string that is not a time, null, or no timestamp member at
\* all) is rejected by ReadMessage: whenever ReadMessage returns a message
\* for a peer's document, the document has a timestamp member whose value
\* is an ISO-8601 string or a number.
C11_TimestampRequired ==
    (PeerFrameRead /\ err = NoErr) =>
        LET raw == RawOf(onWire.body, "timestamp")
        IN \E c \in TimestampCases : c.shape # "other" /\ raw = c.raw

LineRejected == HasPrefix(err, ErrParseJSON \o ": invalid line: ")

\* C13: decoding line yields a present value n only for a JSON number or a
\* string of digits, with or without whitespace around them; a missing
\* member, null or an empty string yields absent; every other value, a
\* signed string or a string with other characters among them, is rejected.
C13_LineShapes ==
    PeerFrameRead =>
        LET object == ParseObject(onWire.body)
            line == Lookup(object.members, "line")
        IN (/\ object.ok
            /\ Lookup(object.members, "type") = "\"console\""
            /\ Lookup(object.members, "timestamp") = "0"
            /\ Lookup(object.members, "column") = "") =>
              /\ line = "" => (err = NoErr /\ msg[1].line = Nil)
              /\ \A c \in IntCases :
                    line = c.raw =>
                        CASE c.shape = "empty" -> err = NoErr /\ msg[1].line = Nil
                          [] c.shape = "other" -> LineRejected
                          [] OTHER -> (err = NoErr => msg[1].line = <<c.n>>)

\* The time is one RFC 3339 can write: its year, in its own zone, has four
\* digits.
ValidTime(t) == Clock(t).year \in 0..9999

SameMessage(a, b) ==
    /\ a.type = b.type /\ a.level = b.level /\ a.message = b.message
    /\ a.url = b.url /\ a.source = b.source
    /\ a.line = b.line /\ a.column = b.column
    /\ TimeEqual(a.timestamp, b.timestamp)

----------------------------------------------------------------------------
\* Properties of the acknowledgment frames on the output stream.

\* The JSON texts of the responses as objects, computed once.
AckObjects == [text \in {Marshalled[response] : response \in Responses} |-> ParseObject(text)]

\* The JSON text of the body written at place i of the stream, as an object.
AckObject(i) == AckObjects[stdout[i].text]

\* C15: every acknowledgment frame the host writes is a length prefix of
\* four bytes whose value, in the byte order of the machine, is the number
\* of bytes of the JSON written right after it, and that JSON is an object
\* with a success member that has an error member only when success is
\* false.
C15_AckFrameShape ==
    \A i \in 1..Len(stdout) :
        /\ stdout[i].part = "length" => Len(stdout[i].bytes) = 4
        /\ stdout[i].part = "body" =>
              /\ i > 1
              /\ stdout[i - 1].part = "length"
              /\ U32Value(Uint32(stdout[i - 1].bytes, bigEndian)) = Len(stdout[i].text)
              /\ AckObject(i).ok
              /\ AckObject(i).rest = ""
              /\ Lookup(AckObject(i).members, "success") \in {"true", "false"}
              /\ Lookup(AckObject(i).members, "error") # "" =>
                    Lookup(AckObject(i).members, "success") = "false"

\* The stream holds a success acknowledgment, which has no error member,
\* and a failure acknowledgment with its error text.
C15_Witness ==
    \E i, j \in 1..Len(stdout) :
        /\ stdout[i].part = "body"
        /\ stdout[i].text = "{\"success\":true}"
        /\ stdout[j].part = "body"
        /\ Lookup(AckObject(j).members, "success") = "false"
        /\ Unquote(Lookup(AckObject(j).members, "error")) = ErrParseJSON

\* C16: a WriteResponse call, successful or failed, leaves on the output
\* stream the whole frame or nothing of it: every length prefix on the
\* stream is followed at once by its body.
C16_WholeFrameOrNothing ==
    \A i \in 1..Len(stdout) :
        stdout[i].part = "length" =>
            i < Len(stdout) /\ stdout[i + 1].part = "body"
----------------------------------------------------------------------------
\* The native messaging manifests (internal/natmsg/manifest.go) as JSON text.

\* The characters of object keys in byte order; map keys are written sorted.
KeyChars == "-.0123456789ABCDEFGHIJKLMNOPQRSTUVWXYZ_abcdefghijklmnopqrstuvwxyz"

Rank(c) == CHOOSE r \in 1..Len(KeyChars) : CharAt(KeyChars, r) = c

\* a < b in byte order.
RECURSIVE KeyLess(_, _)
KeyLess(a, b) ==
    IF b = "" THEN FALSE
    ELSE IF a = "" THEN TRUE
    ELSE IF CharAt(a, 1) = CharAt(b, 1) THEN KeyLess(From(a, 2), From(b, 2))
    ELSE Rank(CharAt(a, 1)) < Rank(CharAt(b, 1))

\* The texts of the elements of an array, s being the text after its
\* opening bracket or after a comma.
RECURSIVE SplitElements(_)
RECURSIVE SplitAfter(_, _)
SplitElements(s) == SplitAfter(SkipSpace(s), ScanValue(SkipSpace(s)).rest)

\* t starts with an element and rest is the text after that element.
SplitAfter(t, rest) ==
    <<SubSeq(t, 1, Len(t) - Len(rest))>>
    \o (IF HasPrefix(SkipSpace(rest), ",")
        THEN SplitElements(From(SkipSpace(rest), 2)) ELSE <<>>)

Elements(raw) ==
    IF HasPrefix(SkipSpace(From(raw, 2)), "]") THEN <<>> ELSE SplitElements(From(raw, 2))

\* json.Unmarshal into map[string]interface{}: a later member of the same
\* key replaces an earlier one.
RECURSIVE LastWins(_)
LastWins(members) ==
    IF members = <<>> THEN <<>>
    ELSE LET m == Head(members)
             rest == LastWins(Tail(members))
         IN IF \E i \in 1..Len(rest) : rest[i].key = m.key THEN rest ELSE <<m>> \o rest

\* The members in the order of their keys, as json.Marshal writes a map.
RECURSIVE Insert(_, _)
Insert(m, sorted) ==
    IF sorted = <<>> THEN <<m>>
    ELSE IF KeyLess(m.key, Head(sorted).key) THEN <<m>> \o sorted
    ELSE <<Head(sorted)>> \o Insert(m, Tail(sorted))

RECURSIVE SortMembers(_)
SortMembers(members) ==
    IF members = <<>> THEN <<>> ELSE Insert(Head(members), SortMembers(Tail(members)))

\* The decoded manifest: nothing when data is not a JSON object.
MapOf(object) == [ok |-> object.ok, raw |-> LastWins(object.members)]

UnmarshalMap(data) == MapOf(ParseObject(data))

\* raw["path"] = newPath
SetPath_Only(raw, newPath) == <<[key |-> "path", raw |-> Quote(newPath)]>>

SetPath(raw, newPath) ==
    SelectSeq(raw, LAMBDA m : m.key # "path") \o <<[key |-> "path", raw |-> Quote(newPath)]>>

RECURSIVE Spaces(_)
Spaces(depth) == IF depth = 0 THEN "" ELSE "  " \o Spaces(depth - 1)

\* 2^53: up to it every whole number is a float64.
TwoTo53 == "9007199254740992"

\* The digits of n + 1 for n given by its digits.
RECURSIVE Increment(_)
Increment(digits) ==
    IF digits = "" THEN "1"
    ELSE IF CharAt(digits, Len(digits)) = "9"
    THEN Increment(SubSeq(digits, 1, Len(digits) - 1)) \o "0"
    ELSE SubSeq(digits, 1, Len(digits) - 1)
         \o CharAt(DigitChars, DigitValue(CharAt(digits, Len(digits))) + 2)

\* The digits of n - 1 for an odd n given by its digits.
Decrement(digits) ==
    SubSeq(digits, 1, Len(digits) - 1)
    \o CharAt(DigitChars, DigitValue(CharAt(digits, Len(digits))))

\* json.Unmarshal of a number into interface{} gives a float64 and
\* json.Marshal writes it back with the fewest digits that denote it.  For
\* a whole number without sign below 2^54, given by its digits: up to 2^53
\* it is exact; above, the float64s are the even numbers and an odd one is
\* rounded to the neighbour with the even mantissa, the multiple of 4.
Float64(digits) ==
    IF \/ Len(digits) < Len(TwoTo53)
       \/ Len(digits) = Len(TwoTo53) /\ ~KeyLess(TwoTo53, digits)
    THEN digits
    ELSE IF DigitValue(CharAt(digits, Len(digits))) % 2 = 0 THEN digits
    ELSE IF DigitsValue(SubSeq(digits, Len(digits) - 1, Len(digits))) % 4 = 1
    THEN Decrement(digits)
    ELSE Increment(digits)

\* json.MarshalIndent(v, "", "  ") of a decoded value, given by its text:
\* strings and numbers are written anew, arrays one element a line,
\* objects, decoded into maps, one member a line in the order of the keys.
RECURSIVE IndentValue(_, _)
RECURSIVE IndentElements(_, _)
RECURSIVE IndentArray(_, _)
RECURSIVE IndentObject(_, _)
RECURSIVE IndentFields(_, _)
IndentValue(raw, depth) ==
    CASE Kind(raw) = "string" -> Quote(Unquote(raw))
      [] Kind(raw) = "array" -> IndentArray(Elements(raw), depth)
      [] Kind(raw) = "object" ->
           IndentObject(SortMembers(LastWins(ParseObject(raw).members)), depth)
      [] Kind(raw) = "number" -> Float64(raw)
      [] Kind(raw) \in {"bool", "null"} -> raw

IndentObject(members, depth) ==
    IF members = <<>> THEN "{}"
    ELSE "{\n" \o IndentFields(members, depth + 1) \o "\n" \o Spaces(depth) \o "}"

IndentFields(members, depth) ==
    Spaces(depth) \o Quote(Head(members).key) \o ": "
    \o IndentValue(Head(members).raw, depth)
    \o (IF Len(members) = 1 THEN "" ELSE ",\n" \o IndentFields(Tail(members), depth))

IndentArray(items, depth) ==
    IF items = <<>> THEN "[]"
    ELSE "[\n" \o IndentElements(items, depth + 1) \o "\n" \o Spaces(depth) \o "]"

IndentElements(items, depth) ==
    Spaces(depth) \o IndentValue(Head(items), depth)
    \o (IF Len(items) = 1 THEN "" ELSE ",\n" \o IndentElements(Tail(items), depth))

RECURSIVE IndentMembers(_)
IndentMembers(members) ==
    "  " \o Quote(Head(members).key) \o ": " \o IndentValue(Head(members).raw, 1)
    \o (IF Len(members) = 1 THEN "" ELSE ",\n" \o IndentMembers(Tail(members)))

\* json.MarshalIndent of a struct, its fields in their order.
MarshalIndent(members) ==
    IF members = <<>> THEN "{}" ELSE "{\n" \o IndentMembers(members) \o "\n}"

\* json.MarshalIndent of a map: its keys sorted.
MarshalIndentMap(raw) == MarshalIndent(SortMembers(raw))

\* json.Marshal of a []string of one element.
StringArray(s) == "[" \o Quote(s) \o "]"

ManifestName == "com.devlog.host"

ManifestDescription == "devlog Native Messaging Host for Browser Log Capture"

\* The file InstallChromeManifest writes.
ChromeManifest(hostPath, extensionID) ==
    MarshalIndent(<<[key |-> "name", raw |-> Quote(ManifestName)],
                    [key |-> "description", raw |-> Quote(ManifestDescription)],
                    [key |-> "path", raw |-> Quote(hostPath)],
                    [key |-> "type", raw |-> Quote("stdio")],
                    [key |-> "allowed_origins",
                     raw |-> StringArray("chrome-extension://" \o extensionID \o "/")]>>)

\* The file InstallFirefoxManifest writes to every Firefox directory.
FirefoxManifest(hostPath) ==
    MarshalIndent(<<[key |-> "name", raw |-> Quote(ManifestName)],
                    [key |-> "description", raw |-> Quote(ManifestDescription)],
                    [key |-> "path", raw |-> Quote(hostPath)],
                    [key |-> "type", raw |-> Quote("stdio")],
                    [key |-> "allowed_extensions",
                     raw |-> StringArray("devlog@devlog.local")]>>)

\* filepath.Clean of an absolute path without .. elements: repeated
\* separators, . elements and a trailing separator are dropped.
RECURSIVE CleanFrom(_)
CleanFrom(path) ==
    IF path = "" THEN ""
    ELSE IF CharAt(path, 1) = "/" THEN
        (IF Len(path) = 1 THEN ""
         ELSE IF CharAt(path, 2) = "/" THEN CleanFrom(From(path, 2))
         ELSE IF HasPrefix(path, "/./") THEN CleanFrom(From(path, 3))
         ELSE IF path = "/." THEN ""
         ELSE "/" \o CleanFrom(From(path, 2)))
    ELSE CharAt(path, 1) \o CleanFrom(From(path, 2))

Clean(path) == IF CleanFrom(path) = "" THEN "/" ELSE CleanFrom(path)

\* raw["path"].(string) of a manifest's text: ok when the text is an object
\* whose path is a string.
StringPath(ok, path) ==
    IF ok /\ Kind(path) = "string"
    THEN [ok |-> TRUE, path |-> Unquote(path)]
    ELSE [ok |-> FALSE, path |-> ""]

PathOfMap(decoded) == StringPath(decoded.ok, Lookup(decoded.raw, "path"))

ManifestPath(data) == PathOfMap(UnmarshalMap(data))
----------------------------------------------------------------------------
\* The session-scoped manifest router (cmd/devlog): devlog up writes the
\* session's wrapper and points the manifests at it, devlog down points
\* them back at the host binary and removes the wrapper.  Each ReadFile and
\* WriteFile of a manifest is a step, so that the commands of two sessions
\* interleave file by file.

\* Bound: number of devlog up / devlog down commands started in one run.
MaxCommands == 3

\* The tmux sessions of the two projects.
Sessions == {"app", "api"}

\* The manifest directories in the order UpdateManifestPath and
\* IsManifestPathInUse visit them: Chrome, then the Firefox family.
Dirs == <<"google-chrome", "mozilla", "zen">>

\* FindDevlogHostBinary: devlog-host beside the executable.
HostPath == "/opt/devlog/devlog-host"

ErrHostNotFound == "devlog-host binary not found in /opt/devlog (searched for: devlog-host)"

\* raw["path"] = newPath for a nil raw: the run-time panic that ends the
\* command.
ErrNilMap == "panic: assignment to entry in nil map"

ErrNoManifests == "no native messaging manifests found to update (run 'devlog register' first)"

\* os.UserCacheDir.
CacheDir == "/home/dev/.cache"

ExtensionID == "abcdefghijklmnopqrstuvwxyz123456"

IsFileNameChar(c) == \E r \in 1..Len(KeyChars) : CharAt(KeyChars, r) = c

RECURSIVE Dashed(_)
Dashed(session) ==
    IF session = "" THEN ""
    ELSE (IF IsFileNameChar(CharAt(session, 1)) THEN CharAt(session, 1) ELSE "-")
         \o Dashed(From(session, 2))

\* strings.Trim(s, "-")
RECURSIVE TrimDashes(_)
TrimDashes(s) ==
    IF HasPrefix(s, "-") THEN TrimDashes(From(s, 2))
    ELSE IF s # "" /\ CharAt(s, Len(s)) = "-" THEN TrimDashes(SubSeq(s, 1, Len(s) - 1))
    ELSE s

DefaultIfEmpty(name) == IF name = "" THEN "default" ELSE name

sanitizeSessionForFileName(session) == DefaultIfEmpty(TrimDashes(Dashed(session)))

browserHostWrapperPath(session) ==
    Clean(CacheDir \o "/devlog/wrappers/devlog-host-wrapper-"
          \o sanitizeSessionForFileName(session) \o ".sh")

\* The manifest files devlog register leaves: none before the first
\* registration, Chrome's, the Firefox family's, or all of them.
Registered ==
    {<<chrome, firefox, firefox>> :
        chrome \in {Nil, <<ChromeManifest(HostPath, ExtensionID)>>},
        firefox \in {Nil, <<FirefoxManifest(HostPath)>>}}

\* The paths a manifest points at in the model.
Paths == {HostPath} \cup {browserHostWrapperPath(s) : s \in Sessions}

\* The text UpdateManifestPath writes for the text it read.
Rewrite(data, newPath) == MarshalIndentMap(SetPath(UnmarshalMap(data).raw, newPath))

\* The host paths handed to InstallChromeManifest and InstallFirefoxManifest.
InstallPaths == {HostPath, "/usr/local/bin/devlog-host"}

\* A Chrome manifest that was edited by hand or by another program: it is
\* written on one line and has keys that devlog does not know, among them
\* a text with characters json.Marshal escapes, a whole number and an
\* object.
CustomManifest(build) ==
    "{\"name\":\"com.devlog.host\",\"path\":\"/opt/devlog/devlog-host\","
    \o "\"type\":\"stdio\",\"x-note\":\"a<b\",\"x-build\":" \o build
    \o ",\"x-opts\":{\"b\":true,\"a\":null},"
    \o "\"allowed_origins\":[\"chrome-extension://x/\"]}"

\* The whole numbers of x-build: a small one, and 2^53 + 1.
Builds == {"42", "9007199254740993"}

\* Manifest texts json.Unmarshal(data, &raw) does not make a map of: a
\* text cut short and an array, which are errors, and null, which is no
\* error and leaves the map nil.
Truncated == "{\"name\":"

NoManifestTexts == {Truncated, "[]", "null", ""}

\* The texts InstallChromeManifest and InstallFirefoxManifest write.
InstalledTexts ==
    {ChromeManifest(p, ExtensionID) : p \in InstallPaths}
    \cup {FirefoxManifest(p) : p \in InstallPaths}

\* The texts a manifest file holds in the model: those devlog register
\* writes, the edited ones, those UpdateManifestPath makes of them, and
\* those that hold no manifest.
ManifestTexts ==
    UNION {{t} \cup {Rewrite(t, p) : p \in Paths} :
              t \in InstalledTexts \cup {CustomManifest(build) : build \in Builds}}
    \cup NoManifestTexts

\* What json.Unmarshal(data, &raw) leaves in raw, a map[string]interface{}:
\* a map for an object, nil without error for null, an error otherwise.
UnmarshalOutcome(ok, data) ==
    IF ok THEN "map" ELSE IF TrimSpace(data) = "null" THEN "nil" ELSE "error"

\* UnmarshalMap, ManifestPath, Rewrite and browserHostWrapperPath on the
\* texts, paths and sessions of the model, computed once.
Decoded == [t \in ManifestTexts |-> UnmarshalOutcome(UnmarshalMap(t).ok, t)]

PathIn == [t \in ManifestTexts |-> ManifestPath(t)]

Rewritten == [t \in ManifestTexts, p \in Paths |-> Rewrite(t, p)]

WrapperPath == [s \in Sessions |-> browserHostWrapperPath(s)]

\* IsManifestPathInUse's test of one manifest against the wrapper of s.
SamePath(found, wrapperPath) == found.ok /\ Clean(found.path) = Clean(wrapperPath)

PointsAt(data, s) == SamePath(PathIn[data], WrapperPath[s])

\* What is remembered of the Install calls: how many there were and, of
\* the last one, the vendor, the host path it was given, what it returned
\* and how many commands of sessions had started when it returned.
NoInstall == [n |-> 0, vendor |-> "none", hostPath |-> "", result |-> NoErr, started |-> 0]

\* A session: the locals of its running command (pc, op, file, newPath,
\* data, updated, errors) and what is remembered of its commands: the
\* commands it finished, the files its running or last command wrote,
\* whether a manifest pointed at its wrapper when that command started,
\* how far the sessions were then, and what its last command returned.
Fresh ==
    [pc |-> "idle", op |-> "none", file |-> 0, newPath |-> "", data |-> "",
     updated |-> FALSE, errors |-> <<>>,
     done |-> <<>>, wrote |-> {}, owned |-> FALSE,
     seen |-> [t \in Sessions |-> 0], result |-> NoErr]

\* The number of commands started so far.
RECURSIVE Sum(_, _)
Sum(f, S) == IF S = {} THEN 0
             ELSE LET x == CHOOSE x \in S : TRUE IN f[x] + Sum(f, S \ {x})

Started ==
    Sum([s \in Sessions |-> Len(sessions[s].done)
                            + (IF sessions[s].pc = "idle" THEN 0 ELSE 1)], Sessions)

RECURSIVE Join(_)
Join(errors) ==
    IF Len(errors) = 1 THEN errors[1] ELSE errors[1] \o "; " \o Join(Tail(errors))

\* UpdateManifestPath without its test of anyUpdated.
UpdateResult_Silent(r) ==
    IF r.errors # <<>>
    THEN (IF r.updated
          THEN "partially updated: some manifests succeeded but others failed: "
          ELSE "failed to update native messaging manifests: ") \o Join(r.errors)
    ELSE NoErr

\* What UpdateManifestPath returns after its loop.
UpdateResult(r) ==
    IF r.errors # <<>>
    THEN (IF r.updated
          THEN "partially updated: some manifests succeeded but others failed: "
          ELSE "failed to update native messaging manifests: ") \o Join(r.errors)
    ELSE IF ~r.updated THEN ErrNoManifests
    ELSE NoErr

\* What writeBrowserHostWrapper returns after UpdateManifestPath.
BeginResult(r) ==
    IF UpdateResult(r) # NoErr
    THEN "failed to update native messaging manifest: " \o UpdateResult(r)
    ELSE NoErr

\* Some manifest points at the wrapper of s.
Owned(s) == \E f \in 1..Len(Dirs) : manifests[f] # Nil /\ PointsAt(manifests[f][1], s)

\* The session as its command op starts.
Starting(s, op) ==
    [Fresh EXCEPT !.op = op, !.done = sessions[s].done, !.owned = Owned(s),
                  !.seen = [t \in Sessions |-> Len(sessions[t].done)]]

\* The session after its command returned e.
Finished(r, e) ==
    [r EXCEPT !.pc = "idle", !.op = "none", !.file = 0, !.newPath = "", !.data = "",
              !.updated = FALSE, !.errors = <<>>,
              !.done = Append(r.done, r.op), !.result = e]

\* writeBrowserHostWrapper returns what UpdateManifestPath gave it.
BeginReturns(s, r) ==
    /\ sessions' = [sessions EXCEPT ![s] = Finished(r, BeginResult(r))]
    /\ UNCHANGED wrappers

\* restoreBrowserHostWrapper: os.Remove(wrapperPath), and return.
EndReturns(s, r) ==
    /\ sessions' = [sessions EXCEPT ![s] = Finished(r, NoErr)]
    /\ wrappers' = wrappers \ {WrapperPath[s]}

\* The loop over the directories goes on to the next one, or the command
\* returns after the last.
Continue(s, r) ==
    IF r.file < Len(Dirs)
    THEN /\ sessions' = [sessions EXCEPT ![s] = [r EXCEPT !.file = r.file + 1,
                                                          !.data = ""]]
         /\ UNCHANGED wrappers
    ELSE IF r.op = "begin" THEN BeginReturns(s, r)
    ELSE EndReturns(s, r)

\* What no command of devlog changes.
CommandFrame ==
    UNCHANGED <<codecVars, namingVars, loggerVars, stateVars, startVars, bigEndian, args, stdin,
                stdinClosed, pc, levels, messageLen, msg, err, logFile, stdout,
                exitCode, sent, outcomes, acks, logged, consumed, readStart,
                faults, registered>>

RouterFrame == CommandFrame /\ UNCHANGED <<installed, ioFaults>>

\* devlog up, writeBrowserHostWrapper: fails when the host binary is not
\* found; else writes the wrapper and calls UpdateManifestPath(wrapperPath).
BeginSession(s) ==
    /\ sessions[s].pc = "idle"
    /\ Started < MaxCommands
    /\ \E r \in {Starting(s, "begin")} :
          IF ~hostBinary
          THEN /\ sessions' = [sessions EXCEPT ![s] = Finished(r, ErrHostNotFound)]
               /\ UNCHANGED wrappers
          ELSE /\ wrappers' = wrappers \cup {WrapperPath[s]}
               /\ sessions' = [sessions EXCEPT
                                 ![s] = [r EXCEPT !.pc = "read", !.file = 1,
                                                  !.newPath = WrapperPath[s]]]
    /\ UNCHANGED <<hostBinary, manifests>>
    /\ RouterFrame

\* UpdateManifestPath, os.ReadFile and json.Unmarshal of one manifest:
\* a missing file is passed over, a file that is no JSON object is an
\* error, and for null, which leaves raw nil, the assignment to raw["path"]
\* that follows panics.
UpdateRead(s) ==
    /\ sessions[s].pc = "read"
    /\ LET r == sessions[s]
           file == manifests[r.file]
       IN IF file = Nil THEN Continue(s, r)
          ELSE IF Decoded[file[1]] = "error"
          THEN Continue(s, [r EXCEPT !.errors = Append(@, Dirs[r.file] \o ": invalid JSON")])
          ELSE IF Decoded[file[1]] = "nil"
          THEN /\ sessions' = [sessions EXCEPT ![s] = Finished(r, ErrNilMap)]
               /\ UNCHANGED wrappers
          ELSE /\ sessions' = [sessions EXCEPT ![s] = [r EXCEPT !.pc = "write",
                                                                !.data = file[1]]]
               /\ UNCHANGED wrappers
    /\ UNCHANGED <<hostBinary, manifests>>
    /\ RouterFrame

\* UpdateManifestPath, raw["path"] = newPath, json.MarshalIndent and
\* os.WriteFile of one manifest.
UpdateWrite(s) ==
    /\ sessions[s].pc = "write"
    /\ LET r == sessions[s]
       IN /\ manifests' = [manifests EXCEPT ![r.file] = <<Rewritten[r.data, r.newPath]>>]
          /\ Continue(s, [r EXCEPT !.pc = "read", !.updated = TRUE,
                                   !.wrote = @ \cup {r.file}])
    /\ UNCHANGED hostBinary
    /\ RouterFrame

\* devlog down, restoreBrowserHostWrapper: returns at once when the host
\* binary is not found; else calls IsManifestPathInUse(wrapperPath).
EndSession(s) ==
    /\ sessions[s].pc = "idle"
    /\ Started < MaxCommands
    /\ \E r \in {Starting(s, "end")} :
          sessions' = [sessions EXCEPT
                         ![s] = IF ~hostBinary THEN Finished(r, NoErr)
                                ELSE [r EXCEPT !.pc = "check", !.file = 1,
                                               !.newPath = HostPath]]
    /\ UNCHANGED <<hostBinary, manifests, wrappers>>
    /\ RouterFrame

\* IsManifestPathInUse, one manifest: true at the first file whose path is
\* the wrapper's, and then UpdateManifestPath(hostPath) starts; after the
\* last file the answer is false, or an error, and nothing is restored.
CheckRead(s) ==
    /\ sessions[s].pc = "check"
    /\ LET r == sessions[s]
           file == manifests[r.file]
       IN IF file = Nil THEN Continue(s, r)
          ELSE IF Decoded[file[1]] = "error"
          THEN Continue(s, [r EXCEPT !.errors = Append(@, Dirs[r.file] \o ": invalid JSON")])
          ELSE IF PointsAt(file[1], s)
          THEN /\ sessions' = [sessions EXCEPT
                                 ![s] = [r EXCEPT !.pc = "read", !.file = 1,
                                                  !.errors = <<>>]]
               /\ UNCHANGED wrappers
          ELSE Continue(s, r)
    /\ UNCHANGED <<hostBinary, manifests>>
    /\ RouterFrame

\* devlog-host is no longer beside the executable: it was removed, or
\* devlog is run from another place.
HostBinaryRemoved ==
    /\ hostBinary
    /\ hostBinary' = FALSE
    /\ UNCHANGED <<manifests, wrappers, sessions>>
    /\ RouterFrame

RouterInit ==
    /\ HostOff
    /\ NamingOff
    /\ StateOff
    /\ LoggerOff
    /\ CodecOff
    /\ bigEndian = FALSE
    /\ msg = Nil
    /\ err = NoErr
    /\ hostBinary = TRUE
    /\ manifests \in Registered
    /\ registered = manifests
    /\ installed = NoInstall
    /\ ioFaults = 0
    /\ wrappers = {}
    /\ sessions = [s \in Sessions |-> Fresh]

RouterNext ==
    \/ \E s \in Sessions : BeginSession(s)
    \/ \E s \in Sessions : UpdateRead(s)
    \/ \E s \in Sessions : UpdateWrite(s)
    \/ \E s \in Sessions : EndSession(s)
    \/ \E s \in Sessions : CheckRead(s)
    \/ HostBinaryRemoved

RouterSpec == RouterInit /\ [][RouterNext]_vars

\* No command is running.
AllIdle == \A s \in Sessions : sessions[s].pc = "idle"
----------------------------------------------------------------------------
\* The commands of devlog run one at a time, on manifest files of any
\* content, with file operations that may fail.

\* Bound: number of commands in one run of CommandSpec.
MaxSerial == 2

\* Bound: number of file operations that fail in one run of CommandSpec.
MaxIOFaults == 1

\* The error of a file operation that fails.
ErrPermission == "permission denied"

\* The commands started so far: those of sessions and the Install calls.
Commands == Started + installed.n

\* The sessions that run commands in CommandSpec.
SerialSessions == {"app"}

\* The files of the Firefox family in Dirs.
FirefoxFiles == {2, 3}

\* The files before the commands: for Chrome none, the registered one, an
\* edited one or null; for the Firefox family none, the registered one, or
\* a text that is no JSON object.
SerialManifests ==
    {<<chrome, mozilla, zen>> :
        chrome \in {Nil, <<ChromeManifest(HostPath, ExtensionID)>>, <<"null">>}
                   \cup {<<CustomManifest(build)>> : build \in Builds},
        mozilla \in {Nil, <<FirefoxManifest(HostPath)>>, <<Truncated>>},
        zen \in {Nil, <<FirefoxManifest(HostPath)>>, <<"[]">>}}

\* The texts the Install functions write, computed once.
InstallText ==
    [vendor \in {"chrome", "firefox"}, hostPath \in InstallPaths |->
        IF vendor = "chrome" THEN ChromeManifest(hostPath, ExtensionID)
        ELSE FirefoxManifest(hostPath)]

\* What an os.WriteFile that fails leaves of the file: the file as it was,
\* when it could not be opened, or an empty file, when it was opened and
\* truncated and the write failed.
AfterFailedWrite(file) == {file, <<"">>}

\* devlog up with the commands one at a time.
SerialBegin(s) ==
    /\ AllIdle
    /\ Commands < MaxSerial
    /\ BeginSession(s)

\* devlog up, writeBrowserHostWrapper: os.MkdirAll or os.WriteFile of the
\* wrapper fails, and UpdateManifestPath is not called.
BeginFails(s) ==
    /\ AllIdle
    /\ Commands < MaxSerial
    /\ ioFaults < MaxIOFaults
    /\ hostBinary
    /\ ioFaults' = ioFaults + 1
    /\ sessions' = [sessions EXCEPT ![s] = Finished(Starting(s, "begin"), ErrPermission)]
    /\ wrappers' \in {wrappers, wrappers \cup {WrapperPath[s]}}
    /\ UNCHANGED <<hostBinary, manifests, installed>>
    /\ CommandFrame

\* devlog down with the commands one at a time.
SerialEnd(s) ==
    /\ AllIdle
    /\ Commands < MaxSerial
    /\ EndSession(s)

\* runner.KillSession when tmux does not list the panes of the session.
ErrKillSession == "failed to get pane list: exit status 1"

\* devlog down, the tmux session exists and runner.KillSession fails:
\* cmdDown returns the error, and restoreBrowserHostWrapper is not called.
DownKillFails(s) ==
    /\ AllIdle
    /\ Commands < MaxSerial
    /\ sessions' = [sessions EXCEPT ![s] = Finished(Starting(s, "down"), ErrKillSession)]
    /\ UNCHANGED <<hostBinary, manifests, wrappers, installed, ioFaults>>
    /\ CommandFrame

\* UpdateManifestPath, os.ReadFile fails with an error other than
\* os.ErrNotExist.
UpdateReadFails(s) ==
    /\ sessions[s].pc = "read"
    /\ manifests[sessions[s].file] # Nil
    /\ ioFaults < MaxIOFaults
    /\ ioFaults' = ioFaults + 1
    /\ Continue(s, [sessions[s] EXCEPT
                      !.errors = Append(@, Dirs[sessions[s].file] \o ": " \o ErrPermission)])
    /\ UNCHANGED <<hostBinary, manifests, installed>>
    /\ CommandFrame

\* UpdateManifestPath, os.WriteFile fails.
UpdateWriteFails(s) ==
    /\ sessions[s].pc = "write"
    /\ ioFaults < MaxIOFaults
    /\ ioFaults' = ioFaults + 1
    /\ \E left \in AfterFailedWrite(manifests[sessions[s].file]) :
          manifests' = [manifests EXCEPT ![sessions[s].file] = left]
    /\ Continue(s, [sessions[s] EXCEPT
                      !.pc = "read",
                      !.errors = Append(@, Dirs[sessions[s].file]
                                           \o ": failed to write file: " \o ErrPermission)])
    /\ UNCHANGED <<hostBinary, installed>>
    /\ CommandFrame

\* IsManifestPathInUse, os.ReadFile fails with an error other than
\* os.ErrNotExist.
CheckReadFails(s) ==
    /\ sessions[s].pc = "check"
    /\ manifests[sessions[s].file] # Nil
    /\ ioFaults < MaxIOFaults
    /\ ioFaults' = ioFaults + 1
    /\ Continue(s, [sessions[s] EXCEPT
                      !.errors = Append(@, Dirs[sessions[s].file] \o ": " \o ErrPermission)])
    /\ UNCHANGED <<hostBinary, manifests, installed>>
    /\ CommandFrame

\* The Install call of vendor with hostPath has returned result.
Installed(vendor, hostPath, result) ==
    [n |-> installed.n + 1, vendor |-> vendor, hostPath |-> hostPath,
     result |-> result, started |-> Started]

\* The Install functions stop at the first directory they cannot make and
\* at the first file they cannot write.
InstallOutcomes == {"ok", "mkdir", "write"}

\* InstallChromeManifest(hostPath, extensionID): os.MkdirAll, then
\* json.MarshalIndent and os.WriteFile.
InstallChromeManifest(hostPath, outcome) ==
    /\ AllIdle
    /\ Commands < MaxSerial
    /\ outcome # "ok" => ioFaults < MaxIOFaults
    /\ ioFaults' = (IF outcome = "ok" THEN ioFaults ELSE ioFaults + 1)
    /\ CASE outcome = "ok" ->
              /\ manifests' = [manifests EXCEPT ![1] = <<InstallText["chrome", hostPath]>>]
              /\ installed' = Installed("chrome", hostPath, NoErr)
         [] outcome = "mkdir" ->
              /\ UNCHANGED manifests
              /\ installed' = Installed("chrome", hostPath,
                     "failed to create Chrome native messaging directory: " \o ErrPermission)
         [] outcome = "write" ->
              /\ \E left \in AfterFailedWrite(manifests[1]) :
                    manifests' = [manifests EXCEPT ![1] = left]
              /\ installed' = Installed("chrome", hostPath,
                     "failed to write Chrome manifest: " \o ErrPermission)
    /\ UNCHANGED <<hostBinary, wrappers, sessions>>
    /\ CommandFrame

\* The files after InstallFirefoxManifest wrote the directories before
\* failAt and left the file of failAt as left; failAt is past the last
\* directory when nothing failed.
FirefoxWritten(text, failAt, left) ==
    [f \in 1..Len(Dirs) |->
        IF f \in FirefoxFiles /\ f < failAt THEN <<text>>
        ELSE IF f = failAt THEN left
        ELSE manifests[f]]

\* InstallFirefoxManifest that returns after the first directory.
InstallFirefoxManifest_FirstOnly(hostPath, outcome) ==
    /\ AllIdle
    /\ Commands < MaxSerial
    /\ outcome = "ok"
    /\ manifests' = FirefoxWritten(InstallText["firefox", hostPath], 3, manifests[3])
    /\ installed' = Installed("firefox", hostPath, NoErr)
    /\ UNCHANGED <<ioFaults, hostBinary, wrappers, sessions>>
    /\ CommandFrame

\* InstallFirefoxManifest(hostPath): json.MarshalIndent, then os.MkdirAll
\* and os.WriteFile for each directory of the Firefox family in turn.
InstallFirefoxManifest(hostPath, outcome) ==
    /\ AllIdle
    /\ Commands < MaxSerial
    /\ outcome # "ok" => ioFaults < MaxIOFaults
    /\ ioFaults' = (IF outcome = "ok" THEN ioFaults ELSE ioFaults + 1)
    /\ CASE outcome = "ok" ->
              /\ manifests' = FirefoxWritten(InstallText["firefox", hostPath],
                                             Len(Dirs) + 1, Nil)
              /\ installed' = Installed("firefox", hostPath, NoErr)
         [] outcome = "mkdir" ->
              \E failAt \in FirefoxFiles :
                 /\ manifests' = FirefoxWritten(InstallText["firefox", hostPath],
                                                failAt, manifests[failAt])
                 /\ installed' = Installed("firefox", hostPath,
                        "failed to create native messaging directory " \o Dirs[failAt]
                        \o ": " \o ErrPermission)
         [] outcome = "write" ->
              \E failAt \in FirefoxFiles :
                 \E left \in AfterFailedWrite(manifests[failAt]) :
                    /\ manifests' = FirefoxWritten(InstallText["firefox", hostPath],
                                                   failAt, left)
                    /\ installed' = Installed("firefox", hostPath,
                           "failed to write manifest to " \o Dirs[failAt]
                           \o ": " \o ErrPermission)
    /\ UNCHANGED <<hostBinary, wrappers, sessions>>
    /\ CommandFrame

CommandInit ==
    /\ HostOff
    /\ NamingOff
    /\ StateOff
    /\ LoggerOff
    /\ CodecOff
    /\ bigEndian = FALSE
    /\ msg = Nil
    /\ err = NoErr
    /\ hostBinary \in BOOLEAN
    /\ manifests \in SerialManifests
    /\ registered = manifests
    /\ installed = NoInstall
    /\ ioFaults = 0
    /\ wrappers = {}
    /\ sessions = [s \in Sessions |-> Fresh]

CommandNext ==
    \/ \E s \in SerialSessions : SerialBegin(s)
    \/ \E s \in SerialSessions : BeginFails(s)
    \/ \E s \in SerialSessions : UpdateRead(s)
    \/ \E s \in SerialSessions : UpdateReadFails(s)
    \/ \E s \in SerialSessions : UpdateWrite(s)
    \/ \E s \in SerialSessions : UpdateWriteFails(s)
    \/ \E s \in SerialSessions : SerialEnd(s)
    \/ \E s \in SerialSessions : DownKillFails(s)
    \/ \E s \in SerialSessions : CheckRead(s)
    \/ \E s \in SerialSessions : CheckReadFails(s)
    \/ \E hostPath \in InstallPaths, outcome \in InstallOutcomes :
          InstallChromeManifest(hostPath, outcome)
    \/ \E hostPath \in InstallPaths, outcome \in InstallOutcomes :
          InstallFirefoxManifest(hostPath, outcome)

CommandSpec == CommandInit /\ [][CommandNext]_vars
----------------------------------------------------------------------------
\* Properties of the manifest router.

\* The path the manifest in directory f points at.
PathOf(files, f) == PathIn[files[f][1]].path

\* A decoded value written without white space.
RECURSIVE Compact(_)
RECURSIVE CompactElements(_)
RECURSIVE CompactFields(_)
Compact(raw) ==
    CASE Kind(raw) = "string" -> Quote(Unquote(raw))
      [] Kind(raw) = "array" ->
           IF Elements(raw) = <<>> THEN "[]"
           ELSE "[" \o CompactElements(Elements(raw)) \o "]"
      [] Kind(raw) = "object" ->
           "{" \o CompactFields(SortMembers(LastWins(ParseObject(raw).members))) \o "}"
      [] OTHER -> raw

CompactFields(members) ==
    IF members = <<>> THEN ""
    ELSE Quote(Head(members).key) \o ":" \o Compact(Head(members).raw)
         \o (IF Len(members) = 1 THEN "" ELSE "," \o CompactFields(Tail(members)))

CompactElements(items) ==
    Compact(Head(items))
    \o (IF Len(items) = 1 THEN "" ELSE "," \o CompactElements(Tail(items)))

\* The fields of a manifest other than path, each with its value.
OtherFields(data) ==
    LET raw == UnmarshalMap(data).raw
    IN {[key |-> raw[i].key, value |-> Compact(raw[i].raw)] :
            i \in {j \in 1..Len(raw) : raw[j].key # "path"}}

\* Every manifest that was registered is there, points at path, and has
\* its other fields as they were registered; no other manifest is there.
RegisteredWith(path) ==
    \A f \in 1..Len(Dirs) :
        IF registered[f] = Nil THEN manifests[f] = Nil
        ELSE /\ manifests[f] # Nil
             /\ PathOf(manifests, f) = path
             /\ OtherFields(manifests[f][1]) = OtherFields(registered[f][1])

\* C17: for two sessions a and b with different wrapper paths, when the
\* steps of a's EndSession interleave with the steps of b's BeginSession in
\* any way, then once both have returned every manifest that b's
\* BeginSession rewrote points at b's wrapper.  (b's BeginSession started
\* after a's BeginSession had returned and before a's EndSession returned.)
C17_StaleEndKeepsBegin ==
    \A a, b \in Sessions :
        (/\ WrapperPath[a] # WrapperPath[b]
         /\ AllIdle
         /\ sessions[a].done = <<"begin", "end">>
         /\ sessions[b].done = <<"begin">>
         /\ sessions[b].seen[a] = 1) =>
            \A f \in sessions[b].wrote :
                manifests[f] # Nil /\ PathOf(manifests, f) = WrapperPath[b]

\* C18: a step of EndSession for wrapper W changes the path of a manifest
\* file only if the file's path is W when the step is taken.
C18_EndRewritesOnlyOwn ==
    [][\A s \in Sessions :
          (/\ sessions[s].pc = "write"
           /\ sessions[s].op = "end"
           /\ sessions'[s] # sessions[s]
           /\ manifests[sessions[s].file] # Nil
           /\ PathOf(manifests', sessions[s].file) # PathOf(manifests, sessions[s].file)) =>
              PointsAt(manifests[sessions[s].file][1], s)]_vars

\* C19: an EndSession that starts when no manifest points at its wrapper
\* rewrites no manifest file, returns no error, and has removed its wrapper
\* file when it returns.
C19_ForeignEndIsNoOp ==
    \A s \in Sessions :
        ~sessions[s].owned =>
            /\ sessions[s].op = "end" => sessions[s].pc = "check"
            /\ (/\ sessions[s].pc = "idle"
                /\ sessions[s].done # <<>>
                /\ sessions[s].done[Len(sessions[s].done)] = "end") =>
                   /\ sessions[s].wrote = {}
                   /\ sessions[s].result = NoErr
                   /\ WrapperPath[s] \notin wrappers

C21_EndRemovesWrapper ==
    \A s \in Sessions :
        (/\ sessions[s].pc = "idle"
         /\ sessions[s].done # <<>>
         /\ sessions[s].done[Len(sessions[s].done)] = "end") =>
            WrapperPath[s] \notin wrappers

\* C22: a BeginSession that returns without error has rewritten the path
\* of every manifest file that was there to its wrapper and changed nothing
\* else: every other key of each file, the keys devlog does not know among
\* them, has the value it had, and no manifest file was created.
C22_RewritesOnlyPath ==
    \A s \in SerialSessions :
        (/\ AllIdle
         /\ installed.n = 0
         /\ sessions[s].done = <<"begin">>
         /\ sessions[s].result = NoErr) =>
            RegisteredWith(WrapperPath[s])

\* What devlog up returns when UpdateManifestPath found no manifest.
ErrNothingRegistered == "failed to update native messaging manifest: " \o ErrNoManifests

\* No manifest file was there before the commands.
NoneRegistered == \A f \in 1..Len(Dirs) : registered[f] = Nil

\* C23: a BeginSession that finds no manifest file in any directory fails
\* with the error that says nothing is registered, an error it returns in
\* no other case, and creates no manifest file.  (The host binary was
\* found and the wrapper written, so that the manifests are reached.)
C23_NothingRegistered ==
    \A s \in SerialSessions :
        (/\ AllIdle
         /\ installed.n = 0
         /\ sessions[s].done = <<"begin">>) =>
            /\ (NoneRegistered /\ hostBinary /\ ioFaults = 0) =>
                  /\ sessions[s].result = ErrNothingRegistered
                  /\ \A f \in 1..Len(Dirs) : manifests[f] = Nil
            /\ ~NoneRegistered => sessions[s].result # ErrNothingRegistered

\* BeginSession ran with no manifest file anywhere and returned the error.
C23_Witness ==
    /\ AllIdle
    /\ NoneRegistered
    /\ hostBinary
    /\ sessions["app"].done = <<"begin">>
    /\ sessions["app"].result = ErrNothingRegistered
    /\ WrapperPath["app"] \in wrappers
    /\ \A f \in 1..Len(Dirs) : manifests[f] = Nil

\* The text has part somewhere in it.
Contains(text, part) ==
    \E i \in 1..(Len(text) - Len(part) + 1) : SubSeq(text, i, i + Len(part) - 1) = part

\* The result names the manifest file of directory f as failing.
Lists(result, f) == Contains(result, Dirs[f] \o ": ")

\* The files that were there when the command of s started and that it
\* did not update.
NotUpdated(s) == {f \in 1..Len(Dirs) : registered[f] # Nil /\ f \notin sessions[s].wrote}

\* The UpdateManifestPath that s ran for newPath aggregated its errors.
Aggregated(s, newPath) ==
    /\ \A f \in 1..Len(Dirs) : registered[f] = Nil => ~Lists(sessions[s].result, f)
    /\ \A f \in NotUpdated(s) : Lists(sessions[s].result, f)
    /\ \A f \in sessions[s].wrote : manifests[f] = <<Rewritten[registered[f][1], newPath]>>
    /\ sessions[s].result = NoErr <=> (sessions[s].wrote # {} /\ NotUpdated(s) = {})

\* C24: the manifest rewrite of a BeginSession never counts a missing file
\* as a failure; when an existing file could not be read, parsed or
\* written, it returns an error that lists every such file, and the files
\* it updated stay updated; it returns no error only when it updated some
\* file and none failed.  (The host binary was found and the wrapper
\* written, so that the manifests are reached.)
C24_AggregatesErrors ==
    \A s \in SerialSessions :
        (/\ AllIdle
         /\ installed.n = 0
         /\ hostBinary
         /\ sessions[s].done = <<"begin">>
         /\ sessions[s].result # ErrPermission) =>
            Aggregated(s, WrapperPath[s])

\* The files an Install function of the vendor writes.
FilesOf(vendor) == IF vendor = "chrome" THEN {1} ELSE FirefoxFiles

\* An Install function has just returned: no command has started since.
JustInstalled == AllIdle /\ installed.n > 0 /\ installed.started = Started

\* C26: when InstallChromeManifest or InstallFirefoxManifest has returned
\* without error, each manifest file of that vendor exists and its path is
\* the host path the function was given, whatever the file held before and
\* whether or not the host binary exists; the files of the Firefox family
\* all hold the same text.
C26_RegisterWritesPath ==
    (JustInstalled /\ installed.result = NoErr) =>
        /\ \A f \in FilesOf(installed.vendor) :
              /\ manifests[f] # Nil
              /\ Decoded[manifests[f][1]] = "map"
              /\ PathOf(manifests, f) = installed.hostPath
        /\ \A f, g \in FilesOf(installed.vendor) : manifests[f] = manifests[g]

\* InstallFirefoxManifest succeeded with another host path, after a
\* BeginSession that had left the manifest of the first directory pointing
\* at the wrapper of the session and with no manifest in the last one.
C26_Witness ==
    /\ JustInstalled
    /\ installed.result = NoErr
    /\ installed.vendor = "firefox"
    /\ installed.hostPath # HostPath
    /\ sessions["app"].done = <<"begin">>
    /\ sessions["app"].wrote = {2}
    /\ registered[3] = Nil
    /\ \A f \in FirefoxFiles : manifests[f] = <<InstallText["firefox", installed.hostPath]>>

----------------------------------------------------------------------------
\* The wrapper files of sessions that are up at the same time.

\* Bound: the length of a session identifier.
NameLen == 3

\* Bound: the number of sessions up at the same time.
MaxUp == 2

\* The characters of the session identifiers: a letter, the dash, and the
\* space, which is no character of a file name.
NameChars == {"a", "-", " "}

RECURSIVE Names(_)
Names(n) ==
    IF n = 0 THEN {""}
    ELSE Names(n - 1) \cup {s \o c : s \in Names(n - 1), c \in NameChars}

\* The session identifiers: cfg.Tmux.Session, any text.
SessionNames == Names(NameLen)

\* browserHostWrapperPath on the identifiers of the model, computed once.
WrapperOf == [session \in SessionNames |-> browserHostWrapperPath(session)]

NamingFrame ==
    UNCHANGED <<bigEndian, args, stdin, stdinClosed, pc, levels, messageLen,
                msg, err, logFile, stdout, exitCode, sent, outcomes, acks,
                logged, consumed, readStart, faults, codecVars, routerVars,
                loggerVars, stateVars, startVars>>

\* devlog up for a session that is not up: writeBrowserHostWrapper writes
\* the wrapper file at browserHostWrapperPath(session).
Up(session) ==
    /\ Cardinality(running) < MaxUp
    /\ \A r \in running : r.session # session
    /\ running' = running \cup {[session |-> session, wrapper |-> WrapperOf[session]]}
    /\ NamingFrame

\* devlog down for a session that is up.
Down(session) ==
    /\ \E r \in running : r.session = session /\ running' = running \ {r}
    /\ NamingFrame

NamingInit ==
    /\ HostOff
    /\ bigEndian = FALSE
    /\ msg = Nil
    /\ err = NoErr
    /\ CodecOff
    /\ RouterOff
    /\ LoggerOff
    /\ StateOff
    /\ running = {}

NamingNext ==
    \/ \E session \in SessionNames : Up(session)
    \/ \E session \in SessionNames : Down(session)

NamingSpec == NamingInit /\ [][NamingNext]_vars

\* C25: two sessions with different identifiers that are up at the same
\* time have different wrapper files.
C25_NoCollision ==
    \A x, y \in running : x.session # y.session => x.wrapper # y.wrapper

----------------------------------------------------------------------------
\* The host loop and the level filter.

\* The r-th ReadMessage call returned a message that the filter rejects.
FilteredOut(r) == outcomes[r].result = "msg" /\ ~outcomes[r].accepted

\* C28: for a message that was decoded and whose level the filter rejects,
\* the host appends nothing to the log file, and the one acknowledgment it
\* sends for it is a success acknowledgment.
C28_FilteredStillAcked ==
    /\ [](\A r \in 1..Len(outcomes) :
            FilteredOut(r) =>
                /\ r \notin logged
                /\ \A i \in AcksOf(r) : acks[i].success /\ acks[i].error = ""
                /\ IterationDone(r) => Cardinality(AcksOf(r)) = 1)
    /\ [][(/\ pc \in {"returned", "ack"}
           /\ FilteredOut(Len(outcomes))) => logFile' = logFile]_vars

\* The host was started with the level ERROR, decoded a message of
\* another level, acknowledged it with success and wrote no line.
C28_Witness ==
    /\ pc = "exited"
    /\ exitCode = 0
    /\ levels = {"error"}
    /\ Len(outcomes) = 2
    /\ FilteredOut(1)
    /\ Len(acks) = 1
    /\ acks[1].success
    /\ acks[1].outcome = "ok"
    /\ logFile = <<>>

----------------------------------------------------------------------------
\* The level-filtered log writer used on its own.

\* Bound: number of calls of Log in one run of LoggerSpec.
MaxLogs == 2

\* The level lists handed to New.
LevelLists == {<<>>, <<"ERROR", "Warn">>, <<"log">>}

\* The instant of the messages.
LogTime == Date(2023, 10, 15, 12, 30, 45, 123000000, 0)

LogMessageOf(level, url, source, line, column) ==
    [type |-> "console", level |-> level, message |-> "hello", url |-> url,
     timestamp |-> LogTime, source |-> source, line |-> line, column |-> column]

\* Messages of every level, with every field set.
LevelMessages ==
    {LogMessageOf(level, "http://localhost:3000/", "app.js", <<12>>, <<7>>) :
        level \in {"error", "ERROR", "warn", "Warn", "log", "info", ""}}

\* Messages of one level with and without url, source, line and column,
\* the numbers positive, zero and negative.
ShapeMessages ==
    {LogMessageOf("log", url, source, line, column) :
        url \in {"", "http://localhost:3000/"},
        source \in {"", "app.js"},
        line \in {Nil, <<0>>, <<-1>>, <<12>>},
        column \in {Nil, <<0>>, <<-2>>, <<7>>}}

\* The lines of the messages, computed once.
LinesOf == [m \in LevelMessages \cup ShapeMessages |-> FormatLine(m)]

\* The log file before the writer is made: none, or one with a line.
PriorFiles == {NoFile, [exists |-> TRUE, content |-> <<"earlier line", "\n">>]}

LoggerFrame ==
    UNCHANGED <<bigEndian, args, stdin, stdinClosed, pc, levels, messageLen,
                msg, err, logFile, stdout, exitCode, sent, outcomes, acks,
                logged, consumed, readStart, faults, codecVars, routerVars,
                namingVars, stateVars, startVars, mu, callers>>

\* What New may do: return a Logger, or fail at os.MkdirAll or os.OpenFile.
NewOutcomes == {"ok", "mkdir", "open"}

\* New with os.O_TRUNC in place of os.O_APPEND.
New_Truncating(list, outcome) ==
    /\ logger = Nil
    /\ outcome = "ok"
    /\ logger' = <<[levels |-> LevelMap(list)]>>
    /\ atOpen' = [disk |-> disk, levels |-> list]
    /\ disk' = [exists |-> TRUE, content |-> <<>>]
    /\ UNCHANGED lastLog
    /\ LoggerFrame

\* New(logPath, levels): os.MkdirAll, os.OpenFile with O_CREATE, O_WRONLY
\* and O_APPEND, and the levelMap.
New(list, outcome) ==
    /\ logger = Nil
    /\ IF outcome = "ok"
       THEN /\ logger' = <<[levels |-> LevelMap(list)]>>
            /\ atOpen' = [disk |-> disk, levels |-> list]
            /\ disk' = [disk EXCEPT !.exists = TRUE]
       ELSE UNCHANGED <<logger, atOpen, disk>>
    /\ UNCHANGED lastLog
    /\ LoggerFrame

\* What is remembered of a call of Log.
Logged(m, after, result) ==
    [n |-> lastLog.n + 1, msg |-> <<m>>, given |-> atOpen.levels,
     before |-> disk.content, after |-> after, result |-> result]

\* Log(msg): nothing for a level ShouldLog rejects, else the line is
\* built and written with l.file.WriteString.
Log(m) ==
    /\ logger # Nil
    /\ IF ~ShouldLog(logger[1].levels, m.level)
       THEN /\ lastLog' = Logged(m, disk.content, NoErr)
            /\ UNCHANGED disk
       ELSE \E w \in WriteStringOutcomes(LinesOf[m]) :
               /\ disk' = [disk EXCEPT !.content = @ \o w.wrote]
               /\ lastLog' = Logged(m, disk.content \o w.wrote, LogResult(w.ok))
    /\ UNCHANGED <<logger, atOpen>>
    /\ LoggerFrame

\* Close, after which the Logger is not used again.
Close ==
    /\ logger # Nil
    /\ logger' = Nil
    /\ UNCHANGED <<disk, atOpen, lastLog>>
    /\ LoggerFrame

LoggerInit ==
    /\ HostOff
    /\ bigEndian = FALSE
    /\ msg = Nil
    /\ err = NoErr
    /\ CodecOff
    /\ RouterOff
    /\ NamingOff
    /\ StateOff
    /\ logger = Nil
    /\ disk \in PriorFiles
    /\ atOpen = NoOpen
    /\ lastLog = NoLog
    /\ mu = Nil
    /\ callers = <<>>

\* A call of Log with a message of some level.
LogLevel == \E m \in LevelMessages : lastLog.n < MaxLogs /\ Log(m)

LoggerNext ==
    \/ \E list \in LevelLists, outcome \in NewOutcomes : New(list, outcome)
    \/ LogLevel
    \/ Close

LoggerSpec == LoggerInit /\ [][LoggerNext]_vars

\* The one call of Log with a message of some shape.
LogShape == \E m \in ShapeMessages : lastLog.n = 0 /\ Log(m)

FormatNext ==
    \/ \E list \in LevelLists, outcome \in NewOutcomes : New(list, outcome)
    \/ LogShape
    \/ Close

FormatSpec == LoggerInit /\ [][FormatNext]_vars

\* The last call of Log got as far as l.file.WriteString: it wrote to the
\* file or returned the error of the write.
Accepted == lastLog.after # lastLog.before \/ lastLog.result # NoErr

\* C27: Log accepts a message of any level when the list of levels given
\* to New is empty; otherwise it accepts the message exactly when its
\* level, lower-cased, is the lower-cased form of a level of the list.
C27_LevelFilter ==
    lastLog.n > 0 =>
        (Accepted <=>
            \/ lastLog.given = <<>>
            \/ \E i \in 1..Len(lastLog.given) :
                  ToLower(lastLog.msg[1].level) = ToLower(lastLog.given[i]))

\* The writer made with ERROR and Warn accepted a message of level warn
\* and wrote its line.
C27_Witness ==
    /\ lastLog.n > 0
    /\ lastLog.given = <<"ERROR", "Warn">>
    /\ lastLog.msg[1].level = "warn"
    /\ lastLog.result = NoErr
    /\ lastLog.after = lastLog.before \o LinesOf[lastLog.msg[1]]

\* The sequence p is the start of the sequence q.
IsPrefix(p, q) == Len(p) <= Len(q) /\ SubSeq(q, 1, Len(p)) = p

\* C29: New leaves the content of the log file as it found it, and no step
\* of the writer takes anything away from the file: what the file held at
\* any time is the start of what it holds later.
C29_FileOnlyGrows ==
    [][/\ IsPrefix(disk.content, disk'.content)
       /\ (logger = Nil /\ logger' # Nil) => disk'.content = disk.content]_vars

\* A writer made on a file that held a line has appended the lines of two
\* messages after it.
C29_Witness ==
    /\ atOpen.disk.exists
    /\ atOpen.disk.content # <<>>
    /\ lastLog.n = 2
    /\ lastLog.result = NoErr
    /\ IsPrefix(atOpen.disk.content, disk.content)
    /\ Len(disk.content) = Len(atOpen.disk.content)
                           + 2 * Len(LinesOf[lastLog.msg[1]])

\* The line the last call of Log wrote.
LastLine == SubSeq(lastLog.after, Len(lastLog.before) + 1, Len(lastLog.after))

\* The pieces of a line between the level and the text of the message.
Middle(line) == SubSeq(line, 6, Len(line) - 3)

\* The location segment of a message with a source.
Location(m) ==
    <<" ", m.source>>
    \o (IF m.line # Nil /\ m.line[1] > 0
        THEN <<":", m.line[1]>>
             \o (IF m.column # Nil /\ m.column[1] > 0 THEN <<":", m.column[1]>> ELSE <<>>)
        ELSE <<>>)

\* C30: in the line Log writes for a message, the segment of the url with
\* its leading space is there exactly when the url is not empty; the
\* location segment is there exactly when the source is not empty, whatever
\* line and column are; in it the line number is there only when line is a
\* positive integer, and the column number only when line and column both
\* are.
C30_FormatOmissions ==
    (lastLog.n > 0 /\ lastLog.result = NoErr /\ lastLog.after # lastLog.before) =>
        Middle(LastLine) =
            (IF lastLog.msg[1].url # "" THEN <<" [", lastLog.msg[1].url, "]">> ELSE <<>>)
            \o (IF lastLog.msg[1].source # "" THEN Location(lastLog.msg[1]) ELSE <<>>)

\* Log wrote the line of a message with a url, a source and a column but
\* no line number: the column is not in it.
C30_Witness ==
    /\ lastLog.n > 0
    /\ lastLog.result = NoErr
    /\ lastLog.msg[1].url # ""
    /\ lastLog.msg[1].source = "app.js"
    /\ lastLog.msg[1].line = Nil
    /\ lastLog.msg[1].column = <<7>>
    /\ Middle(LastLine) = <<" [", lastLog.msg[1].url, "]", " ", "app.js">>

----------------------------------------------------------------------------
\* Goroutines that call Log on one writer at the same time.  No write
\* fails here.

\* Bound: the calls of Log each goroutine makes.
MaxCalls == 2

Goroutines == {1, 2}

\* The messages the goroutines log: two levels, so two different lines.
SharedMessages == {m \in LevelMessages : m.level \in {"error", "log"}}

\* A goroutine outside Log.
Outside == [pc |-> "idle", msg |-> Nil, rest |-> <<>>, calls |-> 0]

ConcurrentFrame ==
    UNCHANGED <<bigEndian, args, stdin, stdinClosed, pc, levels, messageLen,
                msg, err, logFile, stdout, exitCode, sent, outcomes, acks,
                logged, consumed, readStart, faults, codecVars, routerVars,
                namingVars, stateVars, startVars, logger, atOpen, lastLog>>

\* Log(msg) up to l.mu.Lock(): a level ShouldLog rejects returns at once.
Enter(g, m) ==
    /\ callers[g].pc = "idle"
    /\ callers[g].calls < MaxCalls
    /\ callers' = [callers EXCEPT ![g] =
          IF ShouldLog(logger[1].levels, m.level)
          THEN [@ EXCEPT !.pc = "lock", !.msg = <<m>>]
          ELSE [@ EXCEPT !.calls = @ + 1]]
    /\ UNCHANGED <<mu, disk>>
    /\ ConcurrentFrame

\* l.mu.Lock() that does not wait for the mutex.
Lock_NoMutex(g) ==
    /\ callers[g].pc = "lock"
    /\ mu' = <<g>>
    /\ callers' = [callers EXCEPT ![g] =
          [@ EXCEPT !.pc = "write", !.rest = LinesOf[callers[g].msg[1]]]]
    /\ UNCHANGED disk
    /\ ConcurrentFrame

\* l.mu.Lock(), and the line is built.
Lock(g) ==
    /\ callers[g].pc = "lock"
    /\ mu = Nil
    /\ mu' = <<g>>
    /\ callers' = [callers EXCEPT ![g] =
          [@ EXCEPT !.pc = "write", !.rest = LinesOf[callers[g].msg[1]]]]
    /\ UNCHANGED disk
    /\ ConcurrentFrame

\* l.file.WriteString(line): the file takes the line in one write or in
\* several, each appended at the end of the file.
WriteSome(g, k) ==
    /\ callers[g].pc = "write"
    /\ k \in 1..Len(callers[g].rest)
    /\ disk' = [disk EXCEPT !.content = @ \o SubSeq(callers[g].rest, 1, k)]
    /\ callers' = [callers EXCEPT ![g] =
          [@ EXCEPT !.rest = SubSeq(@, k + 1, Len(@)),
                    !.pc = IF k = Len(callers[g].rest) THEN "unlock" ELSE "write"]]
    /\ UNCHANGED mu
    /\ ConcurrentFrame

\* The next write takes one piece, three, or all that is left.
WriteString(g) == \E k \in {1, 3, Len(callers[g].rest)} : WriteSome(g, k)

\* The deferred l.mu.Unlock() as Log returns.
Unlock(g) ==
    /\ callers[g].pc = "unlock"
    /\ mu' = Nil
    /\ callers' = [callers EXCEPT ![g] =
          [@ EXCEPT !.pc = "idle", !.msg = Nil, !.calls = @ + 1]]
    /\ UNCHANGED disk
    /\ ConcurrentFrame

ConcurrentInit ==
    /\ HostOff
    /\ bigEndian = FALSE
    /\ msg = Nil
    /\ err = NoErr
    /\ CodecOff
    /\ RouterOff
    /\ NamingOff
    /\ StateOff
    /\ \E list \in LevelLists, prior \in PriorFiles :
          /\ logger = <<[levels |-> LevelMap(list)]>>
          /\ atOpen = [disk |-> prior, levels |-> list]
          /\ disk = [prior EXCEPT !.exists = TRUE]
    /\ lastLog = NoLog
    /\ mu = Nil
    /\ callers = [g \in Goroutines |-> Outside]

ConcurrentNext ==
    \/ \E g \in Goroutines, m \in SharedMessages : Enter(g, m)
    \/ \E g \in Goroutines : Lock(g)
    \/ \E g \in Goroutines : WriteString(g)
    \/ \E g \in Goroutines : Unlock(g)

ConcurrentSpec == ConcurrentInit /\ [][ConcurrentNext]_vars

\* The sequence is whole lines of messages, one after the other.
RECURSIVE IsLines(_)
IsLines(pieces) ==
    \/ pieces = <<>>
    \/ \E m \in SharedMessages :
          /\ IsPrefix(LinesOf[m], pieces)
          /\ IsLines(SubSeq(pieces, Len(LinesOf[m]) + 1, Len(pieces)))

\* The goroutines inside l.file.WriteString.
Writers == {g \in Goroutines : callers[g].pc = "write"}

\* What goroutine g has written of its line so far.
Written(g) ==
    SubSeq(LinesOf[callers[g].msg[1]], 1,
           Len(LinesOf[callers[g].msg[1]]) - Len(callers[g].rest))

\* What was appended to the file since New.
Appended == SubSeq(disk.content, Len(atOpen.disk.content) + 1, Len(disk.content))

----------------------------------------------------------------------------
\* internal/natmsg, the session state file.

\* Bound: the calls of the session state functions in one run.
MaxStateOps == 3

\* A []string: nil, or its elements.
NilSlice == [isNil |-> TRUE, items |-> <<>>]

Slice(items) == [isNil |-> FALSE, items |-> items]

\* A SessionState.
SessionState(path, list) == [logPath |-> path, levels |-> list]

\* json.Marshal of the elements of a []string.
RECURSIVE MarshalStrings(_)
MarshalStrings(items) ==
    IF items = <<>> THEN ""
    ELSE Quote(Head(items)) \o (IF Len(items) = 1 THEN "" ELSE "," \o MarshalStrings(Tail(items)))

\* json.MarshalIndent of a SessionState without its levels.
MarshalSessionState_NoLevels(path, list) ==
    MarshalIndent(<<[key |-> "log_path", raw |-> Quote(path)],
                    [key |-> "levels", raw |-> "null"]>>)

\* json.MarshalIndent(state, "", "  "): a nil slice is written as null.
MarshalSessionState(path, list) ==
    MarshalIndent(<<[key |-> "log_path", raw |-> Quote(path)],
                    [key |-> "levels",
                     raw |-> IF list.isNil THEN "null"
                             ELSE "[" \o MarshalStrings(list.items) \o "]"]>>)

\* The elements of a JSON array decoded as strings.
Strings(elements) == [i \in 1..Len(elements) |-> Unquote(elements[i])]

\* json.Unmarshal of the member log_path into a string field: a missing
\* member and null leave the field empty.
DecodedPath(raw) ==
    IF raw = "" \/ raw = "null" THEN [ok |-> TRUE, value |-> ""]
    ELSE IF Kind(raw) = "string" THEN [ok |-> TRUE, value |-> Unquote(raw)]
    ELSE [ok |-> FALSE, value |-> ""]

\* json.Unmarshal of the member levels into a []string field: a missing
\* member and null leave the slice nil.
DecodedLevels(raw) ==
    IF raw = "" \/ raw = "null" THEN [ok |-> TRUE, value |-> NilSlice]
    ELSE IF /\ Kind(raw) = "array"
            /\ \A i \in 1..Len(Elements(raw)) : Kind(Elements(raw)[i]) = "string"
    THEN [ok |-> TRUE, value |-> Slice(Strings(Elements(raw)))]
    ELSE [ok |-> FALSE, value |-> NilSlice]

\* The SessionState of the decoded members.
StateOf(path, list) ==
    IF path.ok /\ list.ok THEN [ok |-> TRUE, state |-> SessionState(path.value, list.value)]
    ELSE [ok |-> FALSE, state |-> SessionState("", NilSlice)]

\* The SessionState of a decoded JSON object.
StateOfMap(decoded) ==
    IF decoded.ok
    THEN StateOf(DecodedPath(Lookup(decoded.raw, "log_path")),
                 DecodedLevels(Lookup(decoded.raw, "levels")))
    ELSE [ok |-> FALSE, state |-> SessionState("", NilSlice)]

\* json.Unmarshal(data, &state): null leaves the zero SessionState.
UnmarshalSessionState(data) ==
    IF TrimSpace(data) = "null" THEN [ok |-> TRUE, state |-> SessionState("", NilSlice)]
    ELSE StateOfMap(UnmarshalMap(data))

ErrCacheDir == "failed to get cache directory: neither $XDG_CACHE_HOME nor $HOME are defined"

\* The log paths and level lists given to WriteSessionState.
StateLogPaths == {"/logs/browser.log", "/tmp/a<b \"c\".log"}

StateLevels == {NilSlice, Slice(<<>>), Slice(<<"error", "warn">>), Slice(<<"log">>)}

StateFrame ==
    UNCHANGED <<bigEndian, args, stdin, stdinClosed, pc, levels, messageLen,
                msg, err, logFile, stdout, exitCode, sent, outcomes, acks,
                logged, consumed, readStart, faults, codecVars, routerVars,
                namingVars, loggerVars, startVars>>

\* What is remembered of a call: which function it was, whether a file
\* operation or os.UserCacheDir failed in it, what it returned, and the
\* record that the file should hold after it.
StateOp(op, fault, result, got, record, path, list) ==
    [n |-> stateLog.n + 1, op |-> op, fault |-> fault, result |-> result, got |-> got,
     record |-> record, logPath |-> path, levels |-> list]

\* The call failed and left the file as it was.
StateOpFailed(op, result) ==
    StateOp(op, TRUE, result, Nil, stateLog.record, stateLog.logPath, stateLog.levels)

\* WriteSessionState(logPath, levels); path and list are its arguments.
WriteSessionState(path, list, outcome) ==
    /\ stateLog.n < MaxStateOps
    /\ CASE outcome = "ok" ->
              /\ stateFile' = <<MarshalSessionState(path, list)>>
              /\ stateLog' = StateOp("write", FALSE, NoErr, Nil, "some", path, list)
         [] outcome = "cache" ->
              /\ UNCHANGED stateFile
              /\ stateLog' = StateOpFailed("write", ErrCacheDir)
         [] outcome = "mkdir" ->
              /\ UNCHANGED stateFile
              /\ stateLog' = StateOpFailed("write",
                     "failed to create state directory: " \o ErrPermission)
         [] outcome = "write" ->
              \E left \in AfterFailedWrite(stateFile) :
                 /\ stateFile' = left
                 /\ stateLog' = StateOp("write", TRUE,
                        "failed to write session state: " \o ErrPermission, Nil,
                        IF left = stateFile THEN stateLog.record ELSE "broken",
                        stateLog.logPath, stateLog.levels)
    /\ StateFrame

\* What ReadSessionState returns for the file it read.
ReadResult(decoded) ==
    IF decoded.ok THEN StateOp("read", FALSE, NoErr, <<decoded.state>>,
                               stateLog.record, stateLog.logPath, stateLog.levels)
    ELSE StateOp("read", FALSE, "failed to parse session state: " \o ErrSyntax, Nil,
                 stateLog.record, stateLog.logPath, stateLog.levels)

\* ReadSessionState().
ReadSessionState(outcome) ==
    /\ stateLog.n < MaxStateOps
    /\ CASE outcome = "ok" ->
              stateLog' = IF stateFile = Nil
                          THEN StateOp("read", FALSE,
                                       "failed to read session state: file does not exist",
                                       Nil, stateLog.record, stateLog.logPath, stateLog.levels)
                          ELSE ReadResult(UnmarshalSessionState(stateFile[1]))
         [] outcome = "cache" ->
              stateLog' = StateOpFailed("read", ErrCacheDir)
         [] outcome = "read" ->
              /\ stateFile # Nil
              /\ stateLog' = StateOpFailed("read",
                     "failed to read session state: " \o ErrPermission)
    /\ UNCHANGED stateFile
    /\ StateFrame

\* RemoveSessionState(): os.Remove, where a file that does not exist is
\* no error.
RemoveSessionState(outcome) ==
    /\ stateLog.n < MaxStateOps
    /\ CASE outcome = "ok" ->
              /\ stateFile' = Nil
              /\ stateLog' = StateOp("remove", FALSE, NoErr, Nil, "none", "", NilSlice)
         [] outcome = "cache" ->
              /\ UNCHANGED stateFile
              /\ stateLog' = StateOpFailed("remove", ErrCacheDir)
         [] outcome = "remove" ->
              /\ stateFile # Nil
              /\ UNCHANGED stateFile
              /\ stateLog' = StateOpFailed("remove",
                     "failed to remove session state: " \o ErrPermission)
    /\ StateFrame

StateInit ==
    /\ HostOff
    /\ bigEndian = FALSE
    /\ msg = Nil
    /\ err = NoErr
    /\ CodecOff
    /\ RouterOff
    /\ NamingOff
    /\ LoggerOff
    /\ stateFile = Nil
    /\ stateLog = NoStateOp

StateNext ==
    \/ \E path \in StateLogPaths, list \in StateLevels,
          outcome \in {"ok", "cache", "mkdir", "write"} :
             WriteSessionState(path, list, outcome)
    \/ \E outcome \in {"ok", "cache", "read"} : ReadSessionState(outcome)
    \/ \E outcome \in {"ok", "cache", "remove"} : RemoveSessionState(outcome)

StateSpec == StateInit /\ [][StateNext]_vars

\* C34: the session state is one record: a ReadSessionState after a
\* WriteSessionState(p, L) returns p and L, those of the latest write; a
\* RemoveSessionState returns no error whether or not there is a record,
\* and a ReadSessionState with no record fails.  (Calls in which
\* os.UserCacheDir or a file operation fails are set aside.)
C34_OneGlobalRecord ==
    /\ (stateLog.op = "write" /\ stateLog.result = NoErr) =>
          stateFile = <<MarshalSessionState(stateLog.logPath, stateLog.levels)>>
    /\ (stateLog.op = "read" /\ ~stateLog.fault /\ stateLog.record = "some") =>
          /\ stateLog.result = NoErr
          /\ stateLog.got = <<SessionState(stateLog.logPath, stateLog.levels)>>
    /\ (stateLog.op = "read" /\ stateLog.record = "none") =>
          /\ stateLog.result # NoErr
          /\ stateLog.got = Nil
    /\ (stateLog.op = "remove" /\ ~stateLog.fault) =>
          /\ stateLog.result = NoErr
          /\ stateFile = Nil

\* The third call, a ReadSessionState, returned a log path with characters
\* that are escaped in the file and a list of two levels.
C34_Witness ==
    /\ stateLog.n = 3
    /\ stateLog.op = "read"
    /\ stateLog.result = NoErr
    /\ stateLog.record = "some"
    /\ stateFile # <<MarshalSessionState_NoLevels(stateLog.logPath, stateLog.levels)>>
    /\ stateLog.got = <<SessionState("/tmp/a<b \"c\".log", Slice(<<"error", "warn">>))>>

----------------------------------------------------------------------------
\* cmd/devlog-host, the start of main: what it is started with.

\* The origin of the calling extension, which the browser passes to a native
\* messaging host as an argument.
OriginToken == "chrome-extension://abcdefghijklmnop/"

IsOriginToken(s) == HasPrefix(s, "chrome-extension://") \/ HasPrefix(s, "moz-extension://")

\* The arguments without the origin tokens.
RECURSIVE WithoutOrigin(_)
WithoutOrigin(list) ==
    IF list = <<>> THEN <<>>
    ELSE IF IsOriginToken(Head(list)) THEN WithoutOrigin(Tail(list))
    ELSE <<Head(list)>> \o WithoutOrigin(Tail(list))

\* os.Args[1:] of the host process: started by hand, by the wrapper script
\* of a session, and by the browser from a manifest that names the binary.
StartArgLists ==
    {<<>>, <<"browser.log", "ERROR">>, <<OriginToken>>,
     <<"browser.log", OriginToken>>, <<"browser.log", "warn", OriginToken>>}

\* The session state file when the host process starts: none, or the one
\* that WriteSessionState has written.
StartStateFiles ==
    {Nil, <<MarshalSessionState("/logs/browser.log", Slice(<<"error", "warn">>))>>}

\* The host process and its peer, started with any of these arguments and
\* session state files.
StartInit ==
    /\ bigEndian = FALSE
    /\ args \in StartArgLists
    /\ stdin = <<>>
    /\ stdinClosed = FALSE
    /\ pc = "start"
    /\ levels = {}
    /\ logPath = ""
    /\ messageLen = 0
    /\ msg = Nil
    /\ err = NoErr
    /\ logFile = <<>>
    /\ stdout = <<>>
    /\ exitCode = -1
    /\ sent = <<>>
    /\ outcomes = <<>>
    /\ acks = <<>>
    /\ logged = {}
    /\ consumed = 0
    /\ readStart = 0
    /\ faults = 0
    /\ CodecOff
    /\ RouterOff
    /\ NamingOff
    /\ LoggerOff
    /\ stateFile \in StartStateFiles
    /\ stateLog = NoStateOp

StartSpec == StartInit /\ [][Next]_vars

\* The session state that ReadSessionState would return.
Persisted ==
    IF stateFile = Nil THEN [ok |-> FALSE, state |-> SessionState("", NilSlice)]
    ELSE UnmarshalSessionState(stateFile[1])

\* The host process has nothing read and nothing acknowledged and has
\* exited with a code other than zero.
FailedFast ==
    /\ pc = "exited"
    /\ exitCode > 0
    /\ consumed = 0
    /\ outcomes = <<>>
    /\ stdout = <<>>

\* C32: a host process started with no usable argument runs with the log
\* path and the levels of the persisted SessionState, and when no
\* SessionState can be read it exits non-zero with no frame read and no
\* acknowledgment written.
C32_FallsBackToState ==
    (pc # "start" /\ WithoutOrigin(args) = <<>>) =>
        IF Persisted.ok
        THEN /\ logPath = Persisted.state.logPath
             /\ pc # "exited" => levels = LevelMap(Persisted.state.levels.items)
        ELSE FailedFast

\* C33: an extension-origin token among the arguments is never the log path
\* and never an accepted level, and the log path and the levels are those of
\* the arguments without the token.
C33_OriginTokenIgnored ==
    (pc # "start" /\ WithoutOrigin(args) # <<>>) =>
        /\ ~IsOriginToken(logPath)
        /\ \A l \in levels : ~IsOriginToken(l)
        /\ logPath = WithoutOrigin(args)[1]
        /\ pc # "exited" => levels = LevelMap(Tail(WithoutOrigin(args)))

\* C35: when logger.New fails, the host process exits with a code other
\* than zero, with no byte of the input stream read and no acknowledgment
\* written: a process that was given a log path and has exited before any
\* ReadMessage call has failed fast, and so has every process that exited
\* with a code other than zero.
C35_NoSinkIsFatal ==
    (pc = "exited" /\ Len(args) >= 1 /\ (outcomes = <<>> \/ exitCode # 0)) =>
        /\ FailedFast
        /\ acks = <<>>
        /\ logFile = <<>>

\* logger.New has failed while a frame was waiting on the input stream.
C35_Witness ==
    /\ pc = "exited"
    /\ Len(args) >= 1
    /\ exitCode = 1
    /\ outcomes = <<>>
    /\ stdin # <<>>
    /\ consumed = 0

\* The lines of the messages among the first r ReadMessage calls that Log
\* appended without an error, in the order of the calls.
RECURSIVE Projection(_)
Projection(r) ==
    IF r = 0 THEN <<>>
    ELSE Projection(r - 1) \o (IF r \in logged THEN LogLines[ZeroMessage] ELSE <<>>)

\* C36: at every point of a run of the host process the log file is its
\* content when it was opened followed by the lines of exactly the messages
\* that were decoded, passed the filter and were appended without an error,
\* in the order their frames were read, each once.
C36_LogIsProjection == logFile = Projection(Len(outcomes))

----------------------------------------------------------------------------
\* Sessions that are up side by side.

\* The last command of s was a BeginSession that returned without error,
\* and s has not run EndSession since.
ActiveSession(s) ==
    /\ sessions[s].pc = "idle"
    /\ sessions[s].done # <<>>
    /\ sessions[s].done[Len(sessions[s].done)] = "begin"
    /\ sessions[s].result = NoErr

\* Every session has used its commands in turn: BeginSession first, and
\* EndSession before the next BeginSession.
InTurn ==
    \A s \in Sessions : \A i \in 1..Len(sessions[s].done) :
        sessions[s].done[i] = (IF i % 2 = 1 THEN "begin" ELSE "end")

\* C37: whenever no command is running and some session has begun and not
\* ended, every manifest file that exists points at the wrapper of a session
\* that has begun and not ended.  (The host binary is in its place and every
\* session has begun before it ended.)
C37_ManifestsFollowActive ==
    (hostBinary /\ InTurn /\ AllIdle /\ \E s \in Sessions : ActiveSession(s)) =>
        \A f \in 1..Len(Dirs) :
            manifests[f] # Nil => \E s \in Sessions : ActiveSession(s) /\ PointsAt(manifests[f][1], s)

\* C38: in every state, whatever the steps of the BeginSession and
\* EndSession commands of the sessions that have been taken, a manifest file
\* whose path is the wrapper path of a session names a wrapper file that
\* exists.
C38_NoDanglingRegistration ==
    \A f \in 1..Len(Dirs) : \A s \in Sessions :
        (manifests[f] # Nil /\ PointsAt(manifests[f][1], s)) => WrapperPath[s] \in wrappers

\* The last command of s was a devlog down, and it has returned.
DownReturned(s) ==
    /\ sessions[s].pc = "idle"
    /\ sessions[s].done # <<>>
    /\ sessions[s].done[Len(sessions[s].done)] \in {"end", "down"}

\* C39: whenever devlog down has returned, with success or with an error,
\* the EndSession step of the session has been executed: with the host
\* binary in its place, the wrapper file of the session is removed.
C39_DownRunsEndSession ==
    \A s \in SerialSessions :
        (hostBinary /\ DownReturned(s)) => WrapperPath[s] \notin wrappers
====
